---------------------------- MODULE Spec2Model ----------------------------
(***************************************************************************)
(* Validation contracts of the Schemas repository.                         *)
(*                                                                         *)
(* The repository declares zod object schemas.  RecordSchema (record.ts)   *)
(* is the base contract; every domain schema is RecordSchema.extend({...}).*)
(* A schema is built once, when its module is evaluated; in particular the *)
(* argument of  z.date().default(new Date())  is evaluated at that moment. *)
(* Validation is  schema.safeParse(raw).                                   *)
(*                                                                         *)
(* The state is the wall clock, the schema objects built so far, and the   *)
(* outcome of the validation call in hand.  A module is evaluated in one   *)
(* step, so the new Date() calls of one module read the same clock value;  *)
(* different modules may be evaluated at different clock readings.  A      *)
(* program imports record.ts and one domain module, which is all a domain  *)
(* module imports itself.                                                  *)
(*                                                                         *)
(* Spec is the program of one caller, who validates an input, may validate *)
(* it once more or hand the value back to the contract, and may write to   *)
(* an object of a value.  ConcurrentSpec is the program of two callers     *)
(* whose calls interleave key by key.                                      *)
(***************************************************************************)
EXTENDS Integers, Sequences, FiniteSets, TLC

(* Bounds of the model *)
MaxClock == 2
MaxBadFields == 2
MaxBeyond == 2

---------------------------------------------------------------------------
(* JavaScript values, as far as the contracts tell them apart.  Every      *)
(* value is a record with the fields k, s and n so that values of          *)
(* different JavaScript types can be compared; an array has its items and  *)
(* an object its properties besides.                                       *)

Undefined == [k |-> "undefined", s |-> "", n |-> 0]
Null == [k |-> "null", s |-> "", n |-> 0]
Str(s) == [k |-> "string", s |-> s, n |-> 0]
Num(n) == [k |-> "number", s |-> "", n |-> n]
DateV(t) == [k |-> "date", s |-> "", n |-> t]
InvalidDate == [k |-> "date", s |-> "NaN", n |-> 0]
Bool(b) == [k |-> "boolean", s |-> IF b THEN "true" ELSE "false", n |-> 0]
Arr(items) == [k |-> "array", s |-> "", n |-> 0, items |-> items]
Obj(props) == [k |-> "object", s |-> "", n |-> 0, props |-> props]

(* new Date(): the clock reading at the moment of the call *)
NewDate(now) == DateV(now)

ValidUUIDs ==
    { "123e4567-e89b-12d3-a456-426614174000",
      "9b2e1c5a-7f64-4c1d-8a3e-5d6f7a8b9c0d" }
ValidURLs == { "https://example.com/a.pdf" }

(* a format test that accepts version 4 identifiers only *)
IsUUIDv4(s) == s = "9b2e1c5a-7f64-4c1d-8a3e-5d6f7a8b9c0d"

IsUUID(s) == s \in ValidUUIDs
IsURL(s) == s \in ValidURLs
StrLen(s) == IF s = "" THEN 0 ELSE 1

---------------------------------------------------------------------------
(* Field definitions: the zod type of one key of an object schema.         *)

ZString ==
    [type |-> "string", check |-> "none", min |-> 0, message |-> "",
     optional |-> FALSE, hasDefault |-> FALSE, dflt |-> Undefined]
ZUuid == [ZString EXCEPT !.check = "uuid"]
ZUrl(msg) == [ZString EXCEPT !.check = "url", !.message = msg]
ZStringMin(n, msg) == [ZString EXCEPT !.min = n, !.message = msg]
ZDate == [ZString EXCEPT !.type = "date"]
ZNumber == [ZString EXCEPT !.type = "number"]
ZNumberMin(n, msg) == [ZNumber EXCEPT !.check = "min", !.min = n, !.message = msg]
ZBoolean == [ZString EXCEPT !.type = "boolean"]
ZAny == [ZString EXCEPT !.type = "any"]
ZEnum(options) == [ZString EXCEPT !.type = "enum"] @@ [options |-> options]
ZArray(element) == [ZString EXCEPT !.type = "array"] @@ [element |-> element]
ZArrayMin(element, n, msg) ==
    [ZString EXCEPT !.type = "array", !.check = "min", !.min = n, !.message = msg]
        @@ [element |-> element]
ZObject(shape) == [ZString EXCEPT !.type = "object"] @@ [shape |-> shape]
ZRecord(element) == [ZString EXCEPT !.type = "record"] @@ [element |-> element]
ZLiteral(s) == [ZString EXCEPT !.type = "literal"] @@ [value |-> s]
ZUnion(variants) == [ZString EXCEPT !.type = "union"] @@ [variants |-> variants]
Optional(def) == [def EXCEPT !.optional = TRUE]
Default(def, v) == [def EXCEPT !.hasDefault = TRUE, !.dflt = v]

Field(name, def) == [name |-> name, def |-> def]


---------------------------------------------------------------------------
(* Parsing one value against a field definition.  A parse returns a status *)
(* ("valid", "dirty": a check failed on a value of the right type,         *)
(* "aborted": no value), the parsed value and the issues found, in order.  *)
(* An issue carries the path of the offending key, the rule violated and   *)
(* the message the schema attaches to the rule ("" when it attaches none). *)
(* A path is the sequence of keys leading to the value; the element of an  *)
(* array is designated by its index, counted from 0 and written in digits. *)

Issue(path, code, message) == [path |-> path, code |-> code, message |-> message]

ParseResult(status, value, issues) ==
    [status |-> status, value |-> value, issues |-> issues]

(* ZodString: the type test, then every check; a failed check leaves the   *)
(* string in place and marks the result dirty.                             *)
ParseString(def, v, path) ==
    IF v.k # "string"
    THEN ParseResult("aborted", Undefined, << Issue(path, "invalid_type", "") >>)
    ELSE LET small == IF StrLen(v.s) < def.min
                      THEN << Issue(path, "too_small", def.message) >> ELSE << >>
             fmt == CASE def.check = "uuid" /\ ~IsUUID(v.s) ->
                            << Issue(path, "invalid_string", def.message) >>
                      [] def.check = "url" /\ ~IsURL(v.s) ->
                            << Issue(path, "invalid_string", def.message) >>
                      [] OTHER -> << >>
             issues == small \o fmt
         IN ParseResult(IF issues = << >> THEN "valid" ELSE "dirty", v, issues)

(* a date parse that reads the time in the local zone and returns it      *)
(* shifted by the offset of the zone                                       *)
ParseDateShifted(def, v, path) ==
    IF v.k # "date" \/ v = InvalidDate
    THEN ParseResult("aborted", Undefined, << Issue(path, "invalid_type", "") >>)
    ELSE ParseResult("valid", DateV(v.n + 1), << >>)

(* ZodDate: a Date object whose time is a number; the result is a copy.    *)
ParseDate(def, v, path) ==
    IF v.k # "date"
    THEN ParseResult("aborted", Undefined, << Issue(path, "invalid_type", "") >>)
    ELSE IF v = InvalidDate
    THEN ParseResult("aborted", Undefined, << Issue(path, "invalid_date", "") >>)
    ELSE ParseResult("valid", DateV(v.n), << >>)

(* a number parse whose least value is itself refused *)
ParseNumberAboveMin(def, v, path) ==
    IF v.k # "number"
    THEN ParseResult("aborted", Undefined, << Issue(path, "invalid_type", "") >>)
    ELSE IF def.check = "min" /\ v.n <= def.min
    THEN ParseResult("dirty", v, << Issue(path, "too_small", def.message) >>)
    ELSE ParseResult("valid", v, << >>)

(* ZodNumber: the type test, then the least value, which is allowed *)
ParseNumber(def, v, path) ==
    IF v.k # "number"
    THEN ParseResult("aborted", Undefined, << Issue(path, "invalid_type", "") >>)
    ELSE IF def.check = "min" /\ v.n < def.min
    THEN ParseResult("dirty", v, << Issue(path, "too_small", def.message) >>)
    ELSE ParseResult("valid", v, << >>)

ParseBoolean(def, v, path) ==
    IF v.k # "boolean"
    THEN ParseResult("aborted", Undefined, << Issue(path, "invalid_type", "") >>)
    ELSE ParseResult("valid", v, << >>)

(* ZodEnum: a string that is one of the options *)
ParseEnum(def, v, path) ==
    IF v.k # "string"
    THEN ParseResult("aborted", Undefined, << Issue(path, "invalid_type", "") >>)
    ELSE IF v.s \notin def.options
    THEN ParseResult("aborted", Undefined, << Issue(path, "invalid_enum_value", "") >>)
    ELSE ParseResult("valid", v, << >>)

(* ZodAny: every value, undefined too *)
ParseAny(def, v, path) == ParseResult("valid", v, << >>)

(* ZodRecord with string keys and values of any type *)
ParseRecord(def, v, path) ==
    IF v.k # "object"
    THEN ParseResult("aborted", Undefined, << Issue(path, "invalid_type", "") >>)
    ELSE ParseResult("valid", Obj(v.props), << >>)

(* a literal that any string passes for *)
ParseLiteralAnyString(def, v, path) ==
    IF v.k # "string"
    THEN ParseResult("aborted", Undefined, << Issue(path, "invalid_literal", "") >>)
    ELSE ParseResult("valid", v, << >>)

(* ZodLiteral: the one string of the declaration *)
ParseLiteral(def, v, path) ==
    IF v # Str(def.value)
    THEN ParseResult("aborted", Undefined, << Issue(path, "invalid_literal", "") >>)
    ELSE ParseResult("valid", v, << >>)

(* the types that hold no other value *)
ParseType(def, v, path) ==
    CASE def.type = "string" -> ParseString(def, v, path)
      [] def.type = "date" -> ParseDate(def, v, path)
      [] def.type = "number" -> ParseNumber(def, v, path)
      [] def.type = "boolean" -> ParseBoolean(def, v, path)
      [] def.type = "enum" -> ParseEnum(def, v, path)
      [] def.type = "any" -> ParseAny(def, v, path)
      [] def.type = "record" -> ParseRecord(def, v, path)
      [] def.type = "literal" -> ParseLiteral(def, v, path)

(* a default that is computed afresh, from the clock, at every call *)
DefaultValueAtCall(def, now) ==
    IF def.type = "date" THEN NewDate(now) ELSE def.dflt

(* ZodDefault: the value captured by .default(value) when the schema was   *)
(* built replaces an undefined input.                                      *)
DefaultValue(def, now) == def.dflt

RECURSIVE ParseArray(_, _, _, _)
RECURSIVE ParseNested(_, _, _, _)
RECURSIVE ParseUnion(_, _, _, _)

(* a default that also stands in for a value the wrapped type refuses      *)
ParseFieldDefaultOnInvalid(def, v, path, now) ==
    LET d == IF def.hasDefault /\ v = Undefined THEN DefaultValue(def, now) ELSE v
        r == IF def.optional /\ d = Undefined
             THEN ParseResult("valid", Undefined, << >>)
             ELSE CASE def.type = "array" -> ParseArray(def, d, path, now)
                    [] def.type = "object" -> ParseNested(def, d, path, now)
                    [] def.type = "union" -> ParseUnion(def, d, path, now)
                    [] OTHER -> ParseType(def, d, path)
    IN IF def.hasDefault /\ r.status # "valid"
       THEN ParseResult("valid", DefaultValue(def, now), << >>)
       ELSE r

(* a default that takes the place of whatever the input holds *)
ParseFieldDefaultFirst(def, v, path, now) ==
    LET d == IF def.hasDefault THEN DefaultValue(def, now) ELSE v
    IN IF def.optional /\ d = Undefined
       THEN ParseResult("valid", Undefined, << >>)
       ELSE CASE def.type = "array" -> ParseArray(def, d, path, now)
              [] def.type = "object" -> ParseNested(def, d, path, now)
              [] def.type = "union" -> ParseUnion(def, d, path, now)
              [] OTHER -> ParseType(def, d, path)

(* .default(...) and .optional() wrap the type: an undefined input becomes *)
(* the default, or is accepted as undefined; anything else (null too) goes *)
(* to the wrapped type.                                                    *)
ParseField(def, v, path, now) ==
    LET d == IF def.hasDefault /\ v = Undefined THEN DefaultValue(def, now) ELSE v
    IN IF def.optional /\ d = Undefined
       THEN ParseResult("valid", Undefined, << >>)
       ELSE CASE def.type = "array" -> ParseArray(def, d, path, now)
              [] def.type = "object" -> ParseNested(def, d, path, now)
              [] def.type = "union" -> ParseUnion(def, d, path, now)
              [] OTHER -> ParseType(def, d, path)

---------------------------------------------------------------------------
(* Object schemas.  A shape is the sequence of the schema's keys, in       *)
(* declaration order, each with its field definition.  A raw input is      *)
(* either an object, given by its own properties, or not an object at all. *)

RawObject(props) == [isObject |-> TRUE, props |-> props]
NotAnObject == [isObject |-> FALSE, props |-> [f \in {} |-> Undefined]]

Get(props, key) == IF key \in DOMAIN props THEN props[key] ELSE Undefined

Keys(shape) == { shape[i].name : i \in 1..Len(shape) }
IndexOf(shape, key) == CHOOSE i \in 1..Len(shape) : shape[i].name = key
DefOf(shape, key) == shape[IndexOf(shape, key)].def

(* only the issues of the first key that has any *)
RECURSIVE FirstIssues(_)
FirstIssues(seqs) ==
    IF seqs = << >> THEN << >>
    ELSE IF Head(seqs) # << >> THEN Head(seqs)
    ELSE FirstIssues(Tail(seqs))

(* the issues of all keys, in key order *)
RECURSIVE Flatten(_)
Flatten(seqs) ==
    IF seqs = << >> THEN << >> ELSE Head(seqs) \o Flatten(Tail(seqs))

(* a merge that lets the keys the shape does not declare through *)
MergeObjectPassthrough(shape, raw, res) ==
    LET issues == Flatten([i \in 1..Len(shape) |-> res[i].issues])
        status ==
            IF \E i \in 1..Len(shape) : res[i].status = "aborted" THEN "aborted"
            ELSE IF \E i \in 1..Len(shape) : res[i].status = "dirty" THEN "dirty"
            ELSE "valid"
        present == { shape[i].name : i \in
                       { j \in 1..Len(shape) :
                           \/ shape[j].name \in DOMAIN raw.props
                           \/ res[j].value # Undefined } }
        value == [key \in present \cup DOMAIN raw.props |->
                    IF key \in present THEN res[IndexOf(shape, key)].value
                    ELSE raw.props[key]]
    IN ParseResult(status, value, issues)

(* mergeObjectSync: the outcome of an object from the sequence res of the  *)
(* outcomes of its keys.  The issues of all keys are collected; the object is aborted when *)
(* a key is, dirty when a key is dirty, valid otherwise; a key is part of  *)
(* the value when the input has it or its parse gave a value.              *)
MergeObject(shape, raw, res) ==
    LET issues == Flatten([i \in 1..Len(shape) |-> res[i].issues])
        status ==
            IF \E i \in 1..Len(shape) : res[i].status = "aborted" THEN "aborted"
            ELSE IF \E i \in 1..Len(shape) : res[i].status = "dirty" THEN "dirty"
            ELSE "valid"
        present == { shape[i].name : i \in
                       { j \in 1..Len(shape) :
                           \/ shape[j].name \in DOMAIN raw.props
                           \/ res[j].value # Undefined } }
        value == [key \in present |-> res[IndexOf(shape, key)].value]
    IN ParseResult(status, value, issues)

(* ZodObject, for the object found at path: every key of the shape is      *)
(* parsed, whatever the others gave.  Keys of the input that the shape     *)
(* does not declare are dropped.                                           *)
ParseObjectAt(shape, raw, path, now) ==
    IF ~raw.isObject
    THEN ParseResult("aborted", [f \in {} |-> Undefined],
                     << Issue(path, "invalid_type", "") >>)
    ELSE MergeObject(shape, raw,
            << >> \o [i \in 1..Len(shape) |->
                        ParseField(shape[i].def, Get(raw.props, shape[i].name),
                                   Append(path, shape[i].name), now)])

(* the object handed to safeParse: its path is empty *)
ParseObject(shape, raw, now) == ParseObjectAt(shape, raw, << >>, now)

(* the outcome of a key from the outcome r of the object it holds *)
NestedResult(r) ==
    ParseResult(r.status,
                IF r.status = "aborted" THEN Undefined ELSE Obj(r.value),
                r.issues)

(* a nested object that, left out, is parsed as the empty object *)
ParseNestedFillingAbsent(def, v, path, now) ==
    NestedResult(ParseObjectAt(def.shape,
                               IF v.k = "object" THEN RawObject(v.props)
                               ELSE IF v = Undefined
                               THEN RawObject([key \in {} |-> Undefined])
                               ELSE NotAnObject,
                               path, now))

(* a key whose type is itself a ZodObject *)
ParseNested(def, v, path, now) ==
    NestedResult(ParseObjectAt(def.shape,
                               IF v.k = "object" THEN RawObject(v.props)
                               ELSE NotAnObject,
                               path, now))

(* mergeArray: the outcome of an array from the issues of its own checks   *)
(* and the outcomes res of its elements                                    *)
MergeArray(own, res) ==
    LET issues == own \o Flatten([i \in 1..Len(res) |-> res[i].issues])
        status ==
            IF \E i \in 1..Len(res) : res[i].status = "aborted" THEN "aborted"
            ELSE IF issues # << >> THEN "dirty"
            ELSE "valid"
    IN ParseResult(status,
                   IF status = "aborted" THEN Undefined
                   ELSE Arr([i \in 1..Len(res) |-> res[i].value]),
                   issues)

(* an array parse that reports an element under the path of the array      *)
ParseArrayWithoutIndex(def, v, path, now) ==
    IF v.k # "array"
    THEN ParseResult("aborted", Undefined, << Issue(path, "invalid_type", "") >>)
    ELSE MergeArray(IF def.check = "min" /\ Len(v.items) < def.min
                    THEN << Issue(path, "too_small", def.message) >> ELSE << >>,
                    << >> \o [i \in 1..Len(v.items) |->
                                ParseField(def.element, v.items[i], path, now)])

(* ZodArray: the type test, the length check, then every element, parsed   *)
(* at the path of the array followed by its index                          *)
ParseArray(def, v, path, now) ==
    IF v.k # "array"
    THEN ParseResult("aborted", Undefined, << Issue(path, "invalid_type", "") >>)
    ELSE MergeArray(IF def.check = "min" /\ Len(v.items) < def.min
                    THEN << Issue(path, "too_small", def.message) >> ELSE << >>,
                    << >> \o [i \in 1..Len(v.items) |->
                                ParseField(def.element, v.items[i],
                                           Append(path, ToString(i - 1)), now)])

(* the outcome of a union from the outcomes res of its variants, each      *)
(* parsed with an issue list of its own: the first valid one; failing      *)
(* that, the first dirty one with its issues; failing that, one issue at   *)
(* the path of the union                                                   *)
MergeUnion(path, res) ==
    LET valid == { i \in 1..Len(res) : res[i].status = "valid" }
        dirty == { i \in 1..Len(res) : res[i].status = "dirty" }
        first(S) == CHOOSE i \in S : \A j \in S : i <= j
    IN IF valid # {} THEN res[first(valid)]
       ELSE IF dirty # {} THEN res[first(dirty)]
       ELSE ParseResult("aborted", Undefined,
                        << Issue(path, "invalid_union", "") >>)

(* ZodUnion: the value is tried against every variant in turn *)
ParseUnion(def, v, path, now) ==
    MergeUnion(path,
               << >> \o [i \in 1..Len(def.variants) |->
                           ParseField(def.variants[i], v, path, now)])

(* Object identity.  An object is named by where it lives: in the raw      *)
(* input, in the contract (a value captured by .default), or in the value  *)
(* built by a call, followed by the path to it.                            *)

(* the object found at place at, with the objects it holds, when it is     *)
(* handed on as it is                                                      *)
RECURSIVE Held(_, _)
Held(v, at) ==
    CASE v.k = "object" ->
            { at } \cup UNION { Held(v.props[key], Append(at, key)) :
                                  key \in DOMAIN v.props }
      [] v.k = "array" ->
            { at } \cup UNION { Held(v.items[i], Append(at, ToString(i - 1))) :
                                  i \in 1..Len(v.items) }
      [] v.k = "date" -> { at }
      [] OTHER -> {}

(* the objects in the value that a successful parse of v under def gives,  *)
(* for the call named call on an input named src: ZodDate returns a copy;  *)
(* ZodObject, ZodArray and ZodRecord build a new container; ZodAny returns *)
(* what it was given, and so do the values of a record of any.             *)
RECURSIVE Returned(_, _, _, _, _)
Returned(def, v, path, src, call) ==
    LET filled == def.hasDefault /\ v = Undefined
        d == IF filled THEN def.dflt ELSE v
        from == IF filled THEN "contract" ELSE src
    IN CASE d = Undefined -> {}
         [] def.type = "date" -> { << call >> \o path }
         [] def.type = "any" -> Held(d, << from >> \o path)
         [] def.type = "record" ->
               { << call >> \o path }
                 \cup UNION { Held(d.props[key], << from >> \o Append(path, key)) :
                                key \in DOMAIN d.props }
         [] def.type = "array" ->
               { << call >> \o path }
                 \cup UNION { Returned(def.element, d.items[i],
                                       Append(path, ToString(i - 1)), from, call) :
                                i \in 1..Len(d.items) }
         [] def.type = "union" ->
               LET fits == { i \in 1..Len(def.variants) :
                               ParseField(def.variants[i], d, path, 0).status = "valid" }
               IN IF fits = {} THEN {}
                  ELSE Returned(def.variants[CHOOSE i \in fits : \A j \in fits : i <= j],
                                d, path, from, call)
         [] def.type = "object" ->
               { << call >> \o path }
                 \cup UNION { Returned(def.shape[i].def,
                                       Get(d.props, def.shape[i].name),
                                       Append(path, def.shape[i].name), from, call) :
                                i \in 1..Len(def.shape) }
         [] OTHER -> {}

(* the objects in the value of a successful shape.safeParse(raw) *)
ObjectsOf(shape, raw, src, call) ==
    Returned(ZObject(shape), Obj(raw.props), << >>, src, call)

(* a result handler that hands out the value unless the parse was aborted *)
HandleResultUnlessAborted(r) ==
    IF r.status # "aborted"
    THEN [success |-> TRUE, data |-> r.value, error |-> << >>]
    ELSE [success |-> FALSE, data |-> [f \in {} |-> Undefined], error |-> r.issues]

(* handleResult: a value only when the parse is valid, the error list      *)
(* otherwise.                                                              *)
HandleResult(r) ==
    IF r.status = "valid"
    THEN [success |-> TRUE, data |-> r.value, error |-> << >>]
    ELSE [success |-> FALSE, data |-> [f \in {} |-> Undefined], error |-> r.issues]

(* schema.safeParse(raw), called when the clock reads now *)
SafeParse(shape, raw, now) == HandleResult(ParseObject(shape, raw, now))

(* an extension in which a key of the base keeps the definition of the     *)
(* base                                                                    *)
ExtendBaseWins(base, fields) ==
    base \o SelectSeq(fields, LAMBDA e : e.name \notin Keys(base))

(* base.extend(fields): the keys of the base in their order, a redeclared  *)
(* key taking the new definition, then the keys that are new.              *)
Extend(base, fields) ==
    LET over == [i \in 1..Len(base) |->
                    IF base[i].name \in Keys(fields)
                    THEN Field(base[i].name, DefOf(fields, base[i].name))
                    ELSE base[i]]
        fresh == SelectSeq(fields, LAMBDA e : e.name \notin Keys(base))
    IN over \o fresh

---------------------------------------------------------------------------
(* The schemas.  now is the clock reading when the declaration is          *)
(* evaluated: new Date() inside a declaration is called then.              *)

(* the base contract with createdAt declared without a default *)
RecordSchemaNoDefault(now) ==
    << Field("id", ZUuid),
       Field("createdAt", ZDate),
       Field("updatedAt", Optional(ZDate)) >>

(* the base contract with updatedAt declared required *)
RecordSchemaUpdatedRequired(now) ==
    << Field("id", ZUuid),
       Field("createdAt", Default(ZDate, NewDate(now))),
       Field("updatedAt", ZDate) >>

(* the base contract with id declared optional *)
RecordSchemaIdOptional(now) ==
    << Field("id", Optional(ZUuid)),
       Field("createdAt", Default(ZDate, NewDate(now))),
       Field("updatedAt", Optional(ZDate)) >>

RecordSchema(now) ==
    << Field("id", ZUuid),
       Field("createdAt", Default(ZDate, NewDate(now))),
       Field("updatedAt", Optional(ZDate)) >>

(* .describe(text) keeps the type and records the text *)
Describe(def, text) == def @@ [description |-> text]

(* the RecordSchema of part_004 *)
RecordSchema_part_004(now) ==
    << Field("id", Describe(ZUuid, "Unique identifier (UUID) for the record.")),
       Field("createdAt",
             Describe(Default(ZDate, NewDate(now)),
                      "The timestamp when the record was created.")),
       Field("updatedAt",
             Describe(Optional(ZDate),
                      "The timestamp when the record was last updated.")) >>

MessageSchema(base, now) ==
    Extend(base,
        << Field("senderId", ZUuid),
           Field("receiverId", ZUuid),
           Field("content", ZStringMin(1, "Message content is required.")),
           Field("sentAt", Default(ZDate, NewDate(now))),
           Field("readAt", Optional(ZDate)),
           Field("conversationId", Optional(ZUuid)) >>)

(* the Topic contract with title declared optional *)
TopicSchemaTitleOptional(base) ==
    Extend(base,
        << Field("title", Optional(ZStringMin(1, "Title is required."))),
           Field("description", Optional(ZString)) >>)

TopicSchema(base) ==
    Extend(base,
        << Field("title", ZStringMin(1, "Title is required.")),
           Field("description", Optional(ZString)) >>)

(* declared with z.object; content is one of four objects told apart by    *)
(* their type                                                              *)
CheatsheetSectionSchema ==
    << Field("title", ZStringMin(1, "Section title is required.")),
       Field("content", ZUnion(<<
           ZObject(<< Field("type", ZLiteral("text")),
                      Field("value", ZStringMin(1, "Text content is required.")) >>),
           ZObject(<< Field("type", ZLiteral("list")),
                      Field("items",
                            ZArray(ZStringMin(1, "List item cannot be empty."))) >>),
           ZObject(<< Field("type", ZLiteral("formula")),
                      Field("expression",
                            ZStringMin(1, "Formula expression is required.")) >>),
           ZObject(<< Field("type", ZLiteral("table")),
                      Field("headers",
                            ZArray(ZStringMin(1, "Table header is required."))),
                      Field("rows",
                            ZArray(ZArrayMin(ZStringMin(1, ""), 1, ""))) >>) >>)) >>

CheatsheetSchema(base, section) ==
    Extend(base,
        << Field("topicId", ZUuid),
           Field("title", ZStringMin(1, "Title is required.")),
           Field("sections",
                 ZArrayMin(ZObject(section), 1, "At least one section is required.")),
           Field("tags", Optional(ZArray(ZString))) >>)

StudySessionSchema(base) ==
    Extend(base,
        << Field("studyPlanId", Optional(ZUuid)),
           Field("topicId", ZUuid),
           Field("duration", ZNumberMin(1, "Duration must be at least 1 minute.")),
           Field("date", ZDate),
           Field("notes", Optional(ZString)) >>)

TagSchema(base) ==
    Extend(base,
        << Field("name", ZStringMin(1, "Tag name is required.")),
           Field("description", Optional(ZString)) >>)

FileSchema(base) ==
    Extend(base,
        << Field("fileName", ZStringMin(1, "File name is required.")),
           Field("fileType", ZStringMin(1, "File type is required.")),
           Field("fileSize", ZNumber),
           Field("fileUrl", ZUrl("Must be a valid URL.")),
           Field("description", Optional(ZString)),
           Field("tags", Optional(ZArray(ZString))),
           Field("version", Default(ZString, Str("v1.0"))),
           Field("isPublic", Default(ZBoolean, Bool(FALSE))),
           Field("accessManagement", ZObject(
               << Field("accessType",
                        Default(ZEnum({ "public", "private", "restricted" }),
                                Str("private"))),
                  Field("users", Optional(ZArray(ZUuid))),
                  Field("groups", Optional(ZArray(ZUuid))),
                  Field("allowedRegions", Optional(ZArray(ZString))),
                  Field("allowedIPs", Optional(ZArray(ZString))),
                  Field("accessTime", Optional(ZObject(
                      << Field("startTime", Optional(ZDate)),
                         Field("endTime", Optional(ZDate)) >>))),
                  Field("maxAccesses", Optional(ZNumber)),
                  Field("passcode", Optional(ZString)) >>)) >>)

FolderSchema(base) ==
    Extend(base,
        << Field("name", ZStringMin(1, "Folder name is required.")),
           Field("parentFolderId", Optional(ZUuid)),
           Field("description", Optional(ZString)),
           Field("accessManagement", ZObject(
               << Field("accessType",
                        Default(ZEnum({ "public", "private", "restricted" }),
                                Str("private"))),
                  Field("users", Optional(ZArray(ZUuid))),
                  Field("groups", Optional(ZArray(ZUuid))) >>)) >>)

FileVersionSchema(base, now) ==
    Extend(base,
        << Field("fileId", ZUuid),
           Field("version", ZStringMin(1, "Version number is required.")),
           Field("changeLog", Optional(ZString)),
           Field("fileUrl", ZUrl("Must be a valid URL.")),
           Field("createdAt", Default(ZDate, NewDate(now))) >>)

QuotaSchema(base, now) ==
    Extend(base,
        << Field("userId", Optional(ZUuid)),
           Field("groupId", Optional(ZUuid)),
           Field("totalStorageLimit", ZNumber),
           Field("usedStorage", Default(ZNumber, Num(0))),
           Field("lastUpdated", Default(ZDate, NewDate(now))) >>)

(* a Conversation that one participant is enough for *)
ConversationSchemaOfOne(base) ==
    Extend(base,
        << Field("participants", ZArrayMin(ZUuid, 1, "")),
           Field("lastMessageAt", Optional(ZDate)),
           Field("messages", Optional(ZArray(ZUuid))) >>)

ConversationSchema(base) ==
    Extend(base,
        << Field("participants", ZArrayMin(ZUuid, 2, "")),
           Field("lastMessageAt", Optional(ZDate)),
           Field("messages", Optional(ZArray(ZUuid))) >>)

NotificationSchema(base, now) ==
    Extend(base,
        << Field("userId", ZUuid),
           Field("title", ZStringMin(1, "Notification title is required.")),
           Field("content", Optional(ZString)),
           Field("type", Default(ZEnum({ "info", "warning", "error" }), Str("info"))),
           Field("sentAt", Default(ZDate, NewDate(now))),
           Field("readAt", Optional(ZDate)),
           Field("actionUrl", Optional(ZUrl(""))) >>)

(* the Reaction contract without a declaration of its own for createdAt *)
ReactionSchemaBaseCreatedAt(base, now) ==
    Extend(base,
        << Field("messageId", ZUuid),
           Field("userId", ZUuid),
           Field("reactionType", ZStringMin(1, "")) >>)

ReactionSchema(base, now) ==
    Extend(base,
        << Field("messageId", ZUuid),
           Field("userId", ZUuid),
           Field("reactionType", ZStringMin(1, "")),
           Field("createdAt", Default(ZDate, NewDate(now))) >>)

TimeLogSchema(base) ==
    Extend(base,
        << Field("taskId", ZUuid),
           Field("projectId", Optional(ZUuid)),
           Field("duration", ZNumberMin(1, "Duration must be at least 1 minute.")),
           Field("description", Optional(ZString)),
           Field("logDate", ZDate) >>)

TaskListSchema(base) ==
    Extend(base,
        << Field("title", ZStringMin(1, "Task list title is required.")),
           Field("description", Optional(ZString)),
           Field("tasks", Optional(ZArray(ZUuid))),
           Field("projectId", Optional(ZUuid)) >>)

SubtaskSchema(base) ==
    Extend(base,
        << Field("title", ZStringMin(1, "Subtask title is required.")),
           Field("description", Optional(ZString)),
           Field("status", ZEnum({ "to-do", "in-progress", "completed" })),
           Field("dueDate", Optional(ZDate)),
           Field("taskId", ZUuid),
           Field("priority", Default(ZEnum({ "low", "medium", "high" }), Str("medium"))) >>)

(* declared with z.object, not as an extension of the base contract *)
ReminderSchema ==
    << Field("reminderDate", ZDate),
       Field("message", Optional(ZString)) >>

TaskSchema(base, reminder) ==
    Extend(base,
        << Field("title", ZStringMin(1, "Task title is required.")),
           Field("description", Optional(ZString)),
           Field("status", ZEnum({ "to-do", "in-progress", "completed" })),
           Field("dueDate", Optional(ZDate)),
           Field("priority", Default(ZEnum({ "low", "medium", "high" }), Str("medium"))),
           Field("tags", Optional(ZArray(ZUuid))),
           Field("projectId", Optional(ZUuid)),
           Field("reminders", Optional(ZArray(ZObject(reminder)))),
           Field("dependencies", Optional(ZArray(ZUuid))) >>)

FileCommentSchema(base, now) ==
    Extend(base,
        << Field("fileId", ZUuid),
           Field("authorId", ZUuid),
           Field("comment", ZStringMin(1, "Comment text is required.")),
           Field("createdAt", Default(ZDate, NewDate(now))) >>)

EventNotificationSchema(base, now) ==
    Extend(base,
        << Field("fileId", ZUuid),
           Field("eventType", ZEnum({ "uploaded", "updated", "shared", "commented",
                                      "accessed" })),
           Field("recipientId", ZUuid),
           Field("message", Optional(ZString)),
           Field("createdAt", Default(ZDate, NewDate(now))) >>)

FileMetadataSchema(base, now) ==
    Extend(base,
        << Field("fileId", ZUuid),
           Field("metadata", ZRecord(ZAny)),
           Field("createdAt", Default(ZDate, NewDate(now))) >>)

(* the Comment of the content module (part_003:166) *)
CommentSchema(base, now) ==
    Extend(base,
        << Field("contentEntryId", ZUuid),
           Field("author", ZStringMin(1, "Comment author is required.")),
           Field("text", ZStringMin(1, "Comment text is required.")),
           Field("createdAt", Default(ZDate, NewDate(now))) >>)

ContentEntrySchema(base) ==
    Extend(base,
        << Field("contentTypeId", ZUuid),
           Field("fields", ZRecord(ZAny)),
           Field("status", Default(ZEnum({ "draft", "published", "archived" }),
                                   Str("draft"))),
           Field("publishedAt", Optional(ZDate)) >>)

FormFieldSchema ==
    << Field("fieldName", ZStringMin(1, "Field name is required.")),
       Field("label", Optional(ZString)),
       Field("type", ZEnum({ "text", "textarea", "number", "select", "checkbox",
                             "radio", "date", "password", "relationship", "custom" })),
       Field("placeholder", Optional(ZString)),
       Field("options", Optional(ZArray(ZString))),
       Field("defaultValue", Optional(ZAny)),
       Field("required", Default(ZBoolean, Bool(FALSE))),
       Field("validations", Optional(ZObject(
            << Field("minLength", Optional(ZNumber)),
               Field("maxLength", Optional(ZNumber)),
               Field("minValue", Optional(ZNumber)),
               Field("maxValue", Optional(ZNumber)),
               Field("pattern", Optional(ZString)) >>))),
       Field("errorMessage", Optional(ZString)),
       Field("relationship", Optional(ZObject(
            << Field("relationshipType",
                     ZEnum({ "oneToOne", "oneToMany", "manyToMany" })),
               Field("relatedRecordType",
                     ZStringMin(1, "Related record type is required.")),
               Field("relatedRecords", Optional(ZArray(ZUuid))),
               Field("allowAddNew", Default(ZBoolean, Bool(FALSE))) >>))),
       Field("customComponent", Optional(ZObject(
            << Field("componentName",
                     ZStringMin(1, "Custom component name is required.")),
               Field("props", Optional(ZRecord(ZAny))) >>))) >>

(* the padding and the margin of a layout: four optional numbers *)
BoxSchema ==
    << Field("top", Optional(ZNumber)),
       Field("bottom", Optional(ZNumber)),
       Field("left", Optional(ZNumber)),
       Field("right", Optional(ZNumber)) >>

FormLayoutConfigSchema ==
    << Field("columns", Default(ZNumberMin(1, ""), Num(12))),
       Field("order", Optional(ZNumber)),
       Field("align", Optional(ZEnum({ "left", "center", "right" }))),
       Field("padding", Optional(ZObject(BoxSchema))),
       Field("margin", Optional(ZObject(BoxSchema))) >>

FormSectionSchema(field, config) ==
    << Field("sectionTitle", Optional(ZString)),
       Field("description", Optional(ZString)),
       Field("fields", ZArray(ZObject(field))),
       Field("layoutConfig", Optional(ZObject(config))),
       Field("conditionalLogic", Optional(ZObject(
            << Field("dependsOnField", Optional(ZString)),
               Field("condition", Optional(ZEnum({ "equals", "notEquals",
                                                   "greaterThan", "lessThan" }))),
               Field("value", Optional(ZAny)),
               Field("hidden", Default(ZBoolean, Bool(FALSE))) >>))) >>

FormLayoutSchema(section, config) ==
    << Field("layoutType", ZEnum({ "singleColumn", "twoColumn", "grid", "custom" })),
       Field("sections", ZArray(ZObject(section))),
       Field("layoutConfig", Optional(ZObject(config))) >>

FormActionsSchema ==
    << Field("submitAction", ZStringMin(1, "Submit action is required.")),
       Field("resetAction", Optional(ZString)),
       Field("redirectOnSubmit", Optional(ZUrl(""))) >>

FormDependenciesSchema ==
    << Field("dependentField", ZStringMin(1, "Dependent field name is required.")),
       Field("dependsOnField", ZStringMin(1, "Depends on field name is required.")),
       Field("condition", ZEnum({ "equals", "notEquals", "greaterThan", "lessThan" })),
       Field("dependentFieldBehavior", ZEnum({ "show", "hide", "enable", "disable" })),
       Field("dependentOptions", Optional(ZArray(ZString))) >>

RepeatingFieldGroupSchema(field, config) ==
    << Field("groupName", ZStringMin(1, "Group name is required.")),
       Field("fields", ZArray(ZObject(field))),
       Field("minRepeats", Optional(ZNumber)),
       Field("maxRepeats", Optional(ZNumber)),
       Field("addButtonLabel", Optional(ZString)),
       Field("removeButtonLabel", Optional(ZString)),
       Field("layoutConfig", Optional(ZObject(config))) >>

(* restraints that accept every type a field can have *)
FormRestraintsSchemaEveryType ==
    << Field("maxFields", Optional(ZNumber)),
       Field("maxFieldLength", Optional(ZNumber)),
       Field("allowedFieldTypes",
             Optional(ZArray(ZEnum({ "text", "textarea", "number", "select",
                                     "checkbox", "radio", "date", "password",
                                     "relationship", "custom" })))),
       Field("allowedOptionsCount", Optional(ZNumber)) >>

FormRestraintsSchema ==
    << Field("maxFields", Optional(ZNumber)),
       Field("maxFieldLength", Optional(ZNumber)),
       Field("allowedFieldTypes",
             Optional(ZArray(ZEnum({ "text", "textarea", "number", "select",
                                     "checkbox", "radio", "date", "password",
                                     "custom" })))),
       Field("allowedOptionsCount", Optional(ZNumber)) >>

FormSchema(base) ==
    Extend(base,
        << Field("formName", ZStringMin(1, "Form name is required.")),
           Field("description", Optional(ZString)),
           Field("fields", ZArray(ZObject(FormFieldSchema))),
           Field("layout", ZObject(FormLayoutSchema(
                    FormSectionSchema(FormFieldSchema, FormLayoutConfigSchema),
                    FormLayoutConfigSchema))),
           Field("actions", ZObject(FormActionsSchema)),
           Field("dependencies", Optional(ZArray(ZObject(FormDependenciesSchema)))),
           Field("repeatingGroups",
                 Optional(ZArray(ZObject(RepeatingFieldGroupSchema(
                     FormFieldSchema, FormLayoutConfigSchema))))),
           Field("restraints", Optional(ZObject(FormRestraintsSchema))) >>)

(* The modules.  record.ts declares the base contract; each of the others  *)
(* imports record.ts and nothing else of the repository, so that a program *)
(* using a domain module evaluates record.ts and then that module.         *)
(* part_004 declares a RecordSchema of its own and imports nothing of the  *)
(* repository; a program that uses both base contracts evaluates both      *)
(* modules.                                                                *)
Modules ==
    { "record", "part_004", "messaging", "learning", "productivity", "files", "cms",
      "forms" }

(* the modules whose evaluation reads the clock *)
ClockModules == { "record", "part_004", "messaging", "files", "cms" }

(* the two contracts declared as RecordSchema, that of part_004 under the  *)
(* name of its module                                                      *)
BaseContracts == { "RecordSchema", "part_004.RecordSchema" }

(* what evaluating module m at clock reading now adds to the schemas       *)
Declarations(m, have, now) ==
    CASE m = "record" -> ("RecordSchema" :> RecordSchema(now))
      [] m = "part_004" -> ("part_004.RecordSchema" :> RecordSchema_part_004(now))
      [] m = "messaging" ->
            ("MessageSchema" :> MessageSchema(have["RecordSchema"], now))
            @@ ("ConversationSchema" :> ConversationSchema(have["RecordSchema"]))
            @@ ("NotificationSchema" :> NotificationSchema(have["RecordSchema"], now))
            @@ ("ReactionSchema" :> ReactionSchema(have["RecordSchema"], now))
      [] m = "learning" ->
            ("TopicSchema" :> TopicSchema(have["RecordSchema"]))
            @@ ("StudySessionSchema" :> StudySessionSchema(have["RecordSchema"]))
            @@ ("CheatsheetSectionSchema" :> CheatsheetSectionSchema)
            @@ ("CheatsheetSchema" :>
                  CheatsheetSchema(have["RecordSchema"], CheatsheetSectionSchema))
      [] m = "productivity" ->
            ("TaskListSchema" :> TaskListSchema(have["RecordSchema"]))
            @@ ("SubtaskSchema" :> SubtaskSchema(have["RecordSchema"]))
            @@ ("TimeLogSchema" :> TimeLogSchema(have["RecordSchema"]))
            @@ ("TagSchema" :> TagSchema(have["RecordSchema"]))
            @@ ("ReminderSchema" :> ReminderSchema)
            @@ ("TaskSchema" :> TaskSchema(have["RecordSchema"], ReminderSchema))
      [] m = "files" ->
            ("FileSchema" :> FileSchema(have["RecordSchema"]))
            @@ ("FolderSchema" :> FolderSchema(have["RecordSchema"]))
            @@ ("FileVersionSchema" :> FileVersionSchema(have["RecordSchema"], now))
            @@ ("FileCommentSchema" :> FileCommentSchema(have["RecordSchema"], now))
            @@ ("EventNotificationSchema" :>
                  EventNotificationSchema(have["RecordSchema"], now))
            @@ ("FileMetadataSchema" :> FileMetadataSchema(have["RecordSchema"], now))
            @@ ("QuotaSchema" :> QuotaSchema(have["RecordSchema"], now))
      [] m = "cms" ->
            ("ContentEntrySchema" :> ContentEntrySchema(have["RecordSchema"]))
            @@ ("CommentSchema" :> CommentSchema(have["RecordSchema"], now))
      [] m = "forms" ->
            ("FormFieldSchema" :> FormFieldSchema)
            @@ ("FormActionsSchema" :> FormActionsSchema)
            @@ ("FormRestraintsSchema" :> FormRestraintsSchema)
            @@ ("FormSchema" :> FormSchema(have["RecordSchema"]))

---------------------------------------------------------------------------
(* Raw inputs offered to validation.                                       *)

IsComposite(def) == def.type \in { "array", "object" }

(* a value that satisfies the definition; for an enum with a default, an   *)
(* option other than the default                                           *)
RECURSIVE GoodValue(_)
GoodValue(def) ==
    CASE def.type = "date" -> DateV(100)
      [] def.type = "number" -> Num(5)
      [] def.type = "boolean" -> Bool(TRUE)
      [] def.type = "any" -> Obj([key \in { "name" } |-> Str("me")])
      [] def.type = "enum" ->
            Str(CHOOSE o \in def.options : def.hasDefault => Str(o) # def.dflt)
      [] def.type = "record" ->
            Obj([key \in { "author" } |-> GoodValue(def.element)])
      [] def.type = "literal" -> Str(def.value)
      [] def.type = "union" -> GoodValue(def.variants[1])
      [] def.type = "array" ->
            Arr([i \in 1..(IF def.min > 1 THEN def.min ELSE 1) |->
                    GoodValue(def.element)])
      [] def.type = "object" ->
            Obj([key \in Keys(def.shape) |-> GoodValue(DefOf(def.shape, key))])
      [] def.check = "uuid" -> Str("123e4567-e89b-12d3-a456-426614174000")
      [] def.check = "url" -> Str("https://example.com/a.pdf")
      [] OTHER -> Str("hello")

(* a value of the wrong type, or of the right type and failing a check;    *)
(* a key of type any has none                                              *)
BadValue(def) ==
    CASE def.type = "date" -> InvalidDate
      [] def.type = "number" /\ def.check = "min" -> Num(def.min - 1)
      [] def.type = "number" -> Str("12")
      [] def.type = "boolean" -> Str("yes")
      [] def.type = "enum" -> Str("not-an-option")
      [] def.type = "record" -> Str("not-a-record")
      [] def.type = "literal" -> Str("not-the-literal")
      [] def.type = "union" -> Str("not-a-variant")
      [] def.type = "array" -> Str("not-an-array")
      [] def.type = "object" -> Str("not-an-object")
      [] def.check = "uuid" -> Str("not-a-uuid")
      [] def.check = "url" -> Str("not a url")
      [] def.min > 0 -> Str("")
      [] OTHER -> Num(42)

(* a value of the right type with a violation inside: an array whose       *)
(* second element is invalid, an object whose first key is                 *)
RECURSIVE InnerBadValue(_)
InnerBadValue(def) ==
    LET inner(d) == IF IsComposite(d) THEN InnerBadValue(d) ELSE BadValue(d)
    IN IF def.type = "array"
       THEN Arr(<< GoodValue(def.element), inner(def.element) >>)
       ELSE Obj([key \in Keys(def.shape) |->
                    IF key = def.shape[1].name THEN inner(def.shape[1].def)
                    ELSE GoodValue(DefOf(def.shape, key))])

(* the ways a key can deviate from a valid input *)
Deviations(def) ==
    { "absent" }
        \cup (IF def.type = "any" THEN {} ELSE { "invalid" })
        \cup (IF IsComposite(def) THEN { "inner" } ELSE {})

Deviant(def, how) ==
    CASE how = "absent" -> Undefined
      [] how = "invalid" -> BadValue(def)
      [] how = "inner" -> InnerBadValue(def)

IdInputs ==
    { Undefined, Null, Num(42), Str("not-a-uuid") } \cup { Str(u) : u \in ValidUUIDs }
DateInputs ==
    { Undefined, Null, InvalidDate, Str("2024-01-01T00:00:00Z"), DateV(100), DateV(200) }

(* an object with the given values, a key being left out when its value is *)
(* undefined                                                               *)
ObjectOf(vals) ==
    RawObject([key \in { k \in DOMAIN vals : vals[k] # Undefined } |-> vals[key]])

(* inputs of the base contract: every combination of the values above for  *)
(* its three keys; every combination for id and createdAt, with updatedAt  *)
(* left out or valid, beside a key the contract does not declare           *)
RecordInputs ==
    { ObjectOf([id |-> i, createdAt |-> c, updatedAt |-> u]) :
        i \in IdInputs, c \in DateInputs, u \in DateInputs }
    \cup { ObjectOf([id |-> i, createdAt |-> c, updatedAt |-> u, extra |-> Str("x")]) :
             i \in IdInputs, c \in DateInputs, u \in { Undefined, DateV(200) } }
    \cup { NotAnObject }

(* the sets of at most MaxBadFields keys that follow one another in the    *)
(* declaration of a contract                                               *)
Runs(shape) ==
    { { shape[i].name : i \in p[1]..p[2] } :
        p \in { q \in (1..Len(shape)) \X (0..Len(shape)) :
                  q[2] - q[1] < MaxBadFields } }

(* the keys an input leaves out: none, the optional ones, or the optional  *)
(* and the defaulted ones                                                  *)
Omitted(def, omit) ==
    \/ omit # "none" /\ def.optional
    \/ omit = "defaulted" /\ def.hasDefault

(* inputs of an extended contract: an object valid for every key, with or  *)
(* without the keys it may leave out, except that the keys of one run are  *)
(* left out, hold an invalid value or hold a value invalid inside          *)
DeviantInputs(shape) ==
    UNION { { ObjectOf([key \in Keys(shape) |->
                          IF key \in D THEN Deviant(DefOf(shape, key), b[key])
                          ELSE IF Omitted(DefOf(shape, key), omit) THEN Undefined
                          ELSE GoodValue(DefOf(shape, key))]) :
                b \in { f \in [D -> { "absent", "invalid", "inner" }] :
                          \A key \in D : f[key] \in Deviations(DefOf(shape, key)) },
                omit \in { "none", "optional", "defaulted" } } :
            D \in Runs(shape) }
    \cup { NotAnObject }

---------------------------------------------------------------------------
(* The program.                                                            *)

VARIABLES
    clock,      \* the wall clock, counted from the evaluation of record.ts
    loaded,     \* the modules evaluated so far
    loadedAt,   \* clock reading at which each clock-reading module was evaluated
    schemas,    \* the schema objects built so far, by exported name
    last,       \* the validation call in hand: contract, input, time, outcome,
                \* whether the input is the value of the call before, the
                \* outcome of the call before when this one repeats it, and
                \* the object of that outcome the caller has written to
    running     \* for each of the callers that run side by side, the call it
                \* is in: contract, input, time, the outcomes of the keys
                \* parsed so far, and the outcome once it has returned

vars == << clock, loaded, loadedAt, schemas, last, running >>

NoSchemas == [s \in {} |-> << >>]
NoResult == [success |-> FALSE, data |-> [f \in {} |-> Undefined], error |-> << >>]
NoCall ==
    [schema |-> "", raw |-> NotAnObject, at |-> 0, result |-> NoResult,
     again |-> FALSE, repeats |-> NoResult, touched |-> {}]

Callers == { "a", "b" }
Idle ==
    [schema |-> "", raw |-> NotAnObject, at |-> 0, done |-> << >>,
     returned |-> FALSE, result |-> NoResult]

Init ==
    /\ clock = 0
    /\ loaded = {}
    /\ loadedAt = [m \in ClockModules |-> -1]
    /\ schemas = NoSchemas
    /\ last = NoCall
    /\ running = [c \in Callers |-> Idle]

(* time passes; the outcome of a second call on the same input or on the   *)
(* value of the first is looked at before it does.  The clock counts from  *)
(* the evaluation of record.ts, the first thing every program does.        *)
Tick ==
    /\ clock < MaxClock
    /\ "record" \in loaded
    /\ ~last.again /\ last.repeats = NoResult
    /\ clock' = clock + 1
    /\ UNCHANGED << loaded, loadedAt, schemas, last, running >>

(* a module evaluation in which extend writes the new keys into the shape  *)
(* of the base contract and returns that shape: the base contract and the  *)
(* extensions of the module end up as one object                           *)
LoadModuleExtendingInPlace(m) ==
    /\ loaded = IF m = "record" THEN {} ELSE { "record" }
    /\ LET decl == Declarations(m, schemas, clock)
           shared == decl[CHOOSE s \in DOMAIN decl :
                            \A t \in DOMAIN decl : Len(decl[t]) <= Len(decl[s])]
       IN schemas' = [s \in DOMAIN decl \cup DOMAIN schemas |-> shared]
    /\ loadedAt' = IF m \in ClockModules
                   THEN [loadedAt EXCEPT ![m] = clock] ELSE loadedAt
    /\ loaded' = loaded \cup { m }
    /\ UNCHANGED << clock, last, running >>

(* module m is evaluated, record.ts first and then the domain module the   *)
(* program imports: its schema declarations run, each new Date() in them   *)
(* reading the clock                                                       *)
LoadModule(m) ==
    /\ loaded = IF m = "record" THEN {} ELSE { "record" }
    /\ schemas' = schemas @@ Declarations(m, schemas, clock)
    /\ loadedAt' = IF m \in ClockModules
                   THEN [loadedAt EXCEPT ![m] = clock] ELSE loadedAt
    /\ loaded' = loaded \cup { m }
    /\ UNCHANGED << clock, last, running >>

(* the imports of the program have been evaluated *)
Ready == \E m \in Modules \ { "record" } : loaded = { "record", m }

(* inputs that hold, in a key that is an enum with a default, each of its  *)
(* options in turn, and a valid value in every other required key          *)
OptionInputs(shape) ==
    UNION { { ObjectOf([key \in Keys(shape) |->
                          IF key = shape[i].name THEN Str(o)
                          ELSE IF Omitted(DefOf(shape, key), "defaulted") THEN Undefined
                          ELSE GoodValue(DefOf(shape, key))]) :
                o \in shape[i].def.options } :
            i \in { j \in 1..Len(shape) :
                      shape[j].def.type = "enum" /\ shape[j].def.hasDefault } }

(* the valid values an element of an array is taken from *)
ElementValues(def) ==
    IF def.check = "uuid" THEN { Str(u) : u \in ValidUUIDs } ELSE { GoodValue(def) }

(* inputs that hold, in a key that is an array with a least length, every  *)
(* array of valid elements from none up to one more than that length, the  *)
(* same element more than once too, and a valid value in every other       *)
(* required key                                                            *)
LengthInputs(shape) ==
    UNION { { ObjectOf([key \in Keys(shape) |->
                          IF key = shape[i].name THEN Arr(items)
                          ELSE IF Omitted(DefOf(shape, key), "defaulted") THEN Undefined
                          ELSE GoodValue(DefOf(shape, key))]) :
                items \in UNION { [1..n -> ElementValues(shape[i].def.element)] :
                                    n \in 0..(shape[i].def.min + 1) } } :
            i \in { j \in 1..Len(shape) :
                      shape[j].def.type = "array" /\ shape[j].def.check = "min" } }

(* values for the content of a cheatsheet section: each variant with a     *)
(* valid payload, with an empty or missing one, with the payload of        *)
(* another variant, with a key it does not declare; a type that is no      *)
(* variant's; no type; no object                                           *)
ContentInputs ==
    LET hello == Str("hello")
        content(type, payload) ==
            Obj([key \in { "type" } |-> Str(type)] @@ payload)
        none == [key \in {} |-> Undefined]
    IN { content("text", [value |-> hello]),
         content("text", [value |-> Str("")]),
         content("text", [items |-> Arr(<< hello >>)]),
         content("text", [value |-> hello, items |-> Arr(<< hello >>)]),
         content("list", [items |-> Arr(<< hello, hello >>)]),
         content("list", [items |-> Arr(<< >>)]),
         content("list", [items |-> Arr(<< hello, Str("") >>)]),
         content("list", [value |-> hello]),
         content("formula", [expression |-> hello]),
         content("formula", [expression |-> Str("")]),
         content("formula", none),
         content("table", [headers |-> Arr(<< hello >>),
                           rows |-> Arr(<< Arr(<< hello >>) >>)]),
         content("table", [headers |-> Arr(<< >>), rows |-> Arr(<< >>)]),
         content("table", [headers |-> Arr(<< hello >>),
                           rows |-> Arr(<< Arr(<< >>) >>)]),
         content("table", [headers |-> Arr(<< hello >>),
                           rows |-> Arr(<< Arr(<< hello >>), Arr(<< Str("") >>) >>)]),
         content("table", [headers |-> Arr(<< Str("") >>),
                           rows |-> Arr(<< Arr(<< hello >>) >>)]),
         content("table", [headers |-> Arr(<< hello >>)]),
         content("image", [value |-> hello]),
         Obj([value |-> hello]),
         hello }

(* a section with each of these contents *)
SectionInputs ==
    { RawObject([title |-> Str("hello"), content |-> c]) : c \in ContentInputs }

(* a cheatsheet, valid but for its one section, with each of them *)
CheatsheetInputs(shape) ==
    { ObjectOf([key \in Keys(shape) |->
                  IF key = "sections" THEN Arr(<< Obj(section.props) >>)
                  ELSE IF Omitted(DefOf(shape, key), "defaulted") THEN Undefined
                  ELSE GoodValue(DefOf(shape, key))]) :
        section \in SectionInputs }

(* inputs that hold, in a key that is a number with a least value, every   *)
(* integer from MaxBeyond + 1 below that value to MaxBeyond above it, and  *)
(* a valid value in every other required key                               *)
NumberInputs(shape) ==
    UNION { { ObjectOf([key \in Keys(shape) |->
                          IF key = shape[i].name THEN Num(n)
                          ELSE IF Omitted(DefOf(shape, key), "defaulted") THEN Undefined
                          ELSE GoodValue(DefOf(shape, key))]) :
                n \in (shape[i].def.min - MaxBeyond - 1)..(shape[i].def.min + MaxBeyond) } :
            i \in { j \in 1..Len(shape) :
                      shape[j].def.type = "number" /\ shape[j].def.check = "min" } }

(* inputs that hold, in a key that is a nested object, an object without   *)
(* any key, and a valid value in every other required key                  *)
EmptyObjectInputs(shape) ==
    { ObjectOf([key \in Keys(shape) |->
                  IF key = shape[i].name THEN Obj([none \in {} |-> Undefined])
                  ELSE IF Omitted(DefOf(shape, key), "defaulted") THEN Undefined
                  ELSE GoodValue(DefOf(shape, key))]) :
        i \in { j \in 1..Len(shape) : shape[j].def.type = "object" } }

(* a valid input that also holds a key the contract does not declare *)
UndeclaredInputs(shape) ==
    { RawObject(ObjectOf([key \in Keys(shape) |->
                            IF Omitted(DefOf(shape, key), "defaulted") THEN Undefined
                            ELSE GoodValue(DefOf(shape, key))]).props
                @@ ("extra" :> Str("x"))) }

(* a valid form field of the given type *)
FieldOfType(t) ==
    ObjectOf([key \in Keys(FormFieldSchema) |->
                IF key = "type" THEN Str(t)
                ELSE IF Omitted(DefOf(FormFieldSchema, key), "defaulted") THEN Undefined
                ELSE GoodValue(DefOf(FormFieldSchema, key))])

(* form fields of every type *)
FormFieldInputs ==
    { FieldOfType(t) : t \in DefOf(FormFieldSchema, "type").options }

(* restraints that list one type a field can have, or two *)
FormRestraintsInputs ==
    { ObjectOf([allowedFieldTypes |-> Arr(<< Str(t) >>)]) :
        t \in DefOf(FormFieldSchema, "type").options }
    \cup { ObjectOf([allowedFieldTypes |-> Arr(<< Str("text"), Str("relationship") >>)]) }

(* forms of one field, with restraints that allow no field and list one    *)
(* type, that of the field or another                                      *)
FormInputs(shape) ==
    { ObjectOf([key \in Keys(shape) |->
                  CASE key = "fields" -> Arr(<< Obj(FieldOfType(t).props) >>)
                    [] key = "restraints" ->
                          Obj(ObjectOf([maxFields |-> Num(0),
                                        allowedFieldTypes |-> Arr(<< Str(u) >>)]).props)
                    [] OTHER ->
                          IF Omitted(DefOf(shape, key), "defaulted") THEN Undefined
                          ELSE GoodValue(DefOf(shape, key))]) :
        t \in { "text", "relationship" }, u \in { "text", "number", "relationship" } }

(* the inputs offered to contract s *)
Inputs(s) ==
    IF s \in BaseContracts THEN RecordInputs
    ELSE DeviantInputs(schemas[s]) \cup OptionInputs(schemas[s])
            \cup UndeclaredInputs(schemas[s])
            \cup LengthInputs(schemas[s]) \cup EmptyObjectInputs(schemas[s])
            \cup NumberInputs(schemas[s])
            \cup (CASE s = "CheatsheetSectionSchema" -> SectionInputs
                    [] s = "FormFieldSchema" -> FormFieldInputs
                    [] s = "FormRestraintsSchema" -> FormRestraintsInputs
                    [] s = "FormSchema" -> FormInputs(schemas[s])
                    [] s = "CheatsheetSchema" -> CheatsheetInputs(schemas[s])
                    [] OTHER -> {})

(* a validation that, once done, writes the clock reading of the call into *)
(* the date defaults of the contract it used                               *)
ValidateRefreshingDefaults(s, raw) ==
    /\ Ready
    /\ last = NoCall
    /\ last' = [schema |-> s, raw |-> raw, at |-> clock,
                result |-> SafeParse(schemas[s], raw, clock), again |-> FALSE,
                repeats |-> NoResult, touched |-> {}]
    /\ schemas' =
         [schemas EXCEPT ![s] =
            [i \in 1..Len(@) |->
                IF @[i].def.type = "date" /\ @[i].def.hasDefault
                THEN Field(@[i].name, Default(@[i].def, NewDate(clock)))
                ELSE @[i]]]
    /\ UNCHANGED << clock, loaded, loadedAt, running >>

(* schemas[s].safeParse(raw); imports are evaluated before any caller runs *)
Validate(s, raw) ==
    /\ Ready
    /\ last = NoCall
    /\ last' = [schema |-> s, raw |-> raw, at |-> clock,
                result |-> SafeParse(schemas[s], raw, clock), again |-> FALSE,
                repeats |-> NoResult, touched |-> {}]
    /\ UNCHANGED << clock, loaded, loadedAt, schemas, running >>

(* the caller hands the value it got back to the same contract *)
Revalidate ==
    /\ last # NoCall
    /\ last.result.success
    /\ ~last.again
    /\ last' = [schema |-> last.schema, raw |-> RawObject(last.result.data),
                at |-> clock,
                result |-> SafeParse(schemas[last.schema],
                                     RawObject(last.result.data), clock),
                again |-> TRUE, repeats |-> NoResult, touched |-> {}]
    /\ UNCHANGED << clock, loaded, loadedAt, schemas, running >>

(* the caller makes the call in hand once more, with the same input and    *)
(* before the clock has advanced, and keeps the first outcome to compare   *)
Repeat ==
    /\ last # NoCall
    /\ ~last.again
    /\ last.repeats = NoResult
    /\ last.at = clock
    /\ last' = [schema |-> last.schema, raw |-> last.raw, at |-> clock,
                result |-> SafeParse(schemas[last.schema], last.raw, clock),
                again |-> FALSE, repeats |-> last.result, touched |-> {}]
    /\ UNCHANGED << clock, loaded, loadedAt, schemas, running >>

(* the caller, holding the values of two calls on one input, writes to an  *)
(* object of the first value: setTime on a date, a property of an object,  *)
(* an element of an array                                                  *)
Alter ==
    /\ last # NoCall
    /\ last.repeats.success /\ last.result.success
    /\ last.touched = {}
    /\ \E o \in ObjectsOf(schemas[last.schema], last.raw, "input", "first") :
          last' = [last EXCEPT !.touched = { o }]
    /\ UNCHANGED << clock, loaded, loadedAt, schemas, running >>

(* the caller is done with the outcome *)
Discard ==
    /\ last # NoCall
    /\ last' = NoCall
    /\ UNCHANGED << clock, loaded, loadedAt, schemas, running >>

(* a caller validates some input against some contract *)
Call ==
    /\ Ready
    /\ last = NoCall
    /\ \E s \in DOMAIN schemas : \E raw \in Inputs(s) : Validate(s, raw)

Next ==
    \/ Tick
    \/ \E m \in Modules : LoadModule(m)
    \/ Call
    \/ Revalidate
    \/ Repeat
    \/ Alter
    \/ Discard

Spec == Init /\ [][Next]_vars

---------------------------------------------------------------------------
(* Callers side by side.  Each call has a parse context of its own; the    *)
(* contracts are the only objects the calls have in common.  A call is     *)
(* taken apart into the parse of each key of its contract, and the parses  *)
(* of the calls interleave in every order.  Caller a validates against any *)
(* contract of the program, caller b against the base contract.            *)

(* the inputs the callers pick from: an object that holds a valid value    *)
(* for every required key and no other key, the same with an invalid value *)
(* in the first key, and a value that is no object                         *)
ConcurrentInputs(shape) ==
    { ObjectOf([key \in Keys(shape) |->
                  IF bad /\ key = shape[1].name THEN BadValue(shape[1].def)
                  ELSE IF Omitted(DefOf(shape, key), "defaulted") THEN Undefined
                  ELSE GoodValue(DefOf(shape, key))]) :
        bad \in BOOLEAN }
    \cup { NotAnObject }

(* time passes while the callers run; the imports were evaluated when the  *)
(* program started                                                         *)
ConcurrentTick == Ready /\ Tick

(* caller c calls schemas[s].safeParse(raw) *)
Begin(c, s, raw) ==
    /\ Ready
    /\ running[c] = Idle
    /\ running' = [running EXCEPT ![c] =
                      [schema |-> s, raw |-> raw, at |-> clock, done |-> << >>,
                       returned |-> FALSE, result |-> NoResult]]
    /\ UNCHANGED << clock, loaded, loadedAt, schemas, last >>

(* a call whose parse reads the key from the input of any call in          *)
(* progress: the input in hand is kept in one place for all calls          *)
ParseKeyOfSharedInput(c) ==
    LET call == running[c]
        shape == schemas[call.schema]
        key == shape[Len(call.done) + 1]
    IN /\ call.schema # "" /\ ~call.returned
       /\ call.raw.isObject
       /\ Len(call.done) < Len(shape)
       /\ \E d \in Callers :
            /\ running[d].schema # "" /\ ~running[d].returned
            /\ running' = [running EXCEPT ![c].done =
                  Append(@, ParseField(key.def, Get(running[d].raw.props, key.name),
                                       << key.name >>, clock))]
       /\ UNCHANGED << clock, loaded, loadedAt, schemas, last >>

(* the call of caller c parses the next key of its contract *)
ParseKey(c) ==
    LET call == running[c]
        shape == schemas[call.schema]
        key == shape[Len(call.done) + 1]
    IN /\ call.schema # "" /\ ~call.returned
       /\ call.raw.isObject
       /\ Len(call.done) < Len(shape)
       /\ running' = [running EXCEPT ![c].done =
             Append(@, ParseField(key.def, Get(call.raw.props, key.name),
                                  << key.name >>, clock))]
       /\ UNCHANGED << clock, loaded, loadedAt, schemas, last >>

(* the call of caller c returns: the outcomes of the keys are merged, or   *)
(* the input is no object and is refused at once                           *)
Return(c) ==
    LET call == running[c]
        shape == schemas[call.schema]
    IN /\ call.schema # "" /\ ~call.returned
       /\ call.raw.isObject => Len(call.done) = Len(shape)
       /\ running' = [running EXCEPT ![c].returned = TRUE, ![c].result =
             HandleResult(IF call.raw.isObject
                          THEN MergeObject(shape, call.raw, call.done)
                          ELSE ParseObject(shape, call.raw, clock))]
       /\ UNCHANGED << clock, loaded, loadedAt, schemas, last >>

ConcurrentNext ==
    \/ ConcurrentTick
    \/ \E m \in Modules : LoadModule(m)
    \/ \E s \in DOMAIN schemas :
          \E raw \in ConcurrentInputs(schemas[s]) : Begin("a", s, raw)
    \/ /\ Ready
       /\ \E raw \in ConcurrentInputs(schemas["RecordSchema"]) :
             Begin("b", "RecordSchema", raw)
    \/ \E c \in Callers : ParseKey(c)
    \/ \E c \in Callers : Return(c)

ConcurrentSpec == Init /\ [][ConcurrentNext]_vars

---------------------------------------------------------------------------
(* Vocabulary of the properties.                                           *)

Called == last # NoCall
OnObject == Called /\ last.raw.isObject
Given(key) == key \in DOMAIN last.raw.props
Succeeded == Called /\ last.result.success
Failed == Called /\ ~last.result.success
ErrorPaths ==
    { last.result.error[i].path : i \in 1..Len(last.result.error) }
Names(key) == << key >> \in ErrorPaths
(* an entry designates the key or something inside its value *)
NamesWithin(key) == \E p \in ErrorPaths : p # << >> /\ p[1] = key
Contract == schemas[last.schema]

IsTimestamp(v) == v.k = "date" /\ v # InvalidDate
IsUuidString(v) == v.k = "string" /\ v.s \in ValidUUIDs

(* the keys of a contract that .default(new Date()) fills *)
DefaultedTimestamps(shape) ==
    { key \in Keys(shape) :
        DefOf(shape, key).type = "date" /\ DefOf(shape, key).hasDefault }

(* the extensions that declare createdAt again (part_000:108, part_002:94, *)
(* 151, 173 and 291, part_003:176)                                         *)
Redeclaring ==
    { "ReactionSchema", "FileVersionSchema", "FileCommentSchema",
      "EventNotificationSchema", "FileMetadataSchema", "CommentSchema" }

(* the module whose evaluation ran the new Date() of a defaulted key:      *)
(* record.ts:6 for createdAt, unless the extension declares it again; the  *)
(* extending module for the rest                                           *)
DeclaredIn(schema, key) ==
    IF \/ schema = "RecordSchema"
       \/ (key = "createdAt" /\ schema \notin Redeclaring \cup BaseContracts)
    THEN "record"
    ELSE CHOOSE m \in loaded : m # "record"

---------------------------------------------------------------------------
(* C1: whenever an otherwise valid input omits createdAt, the validated    *)
(* result has createdAt equal to the clock reading of the validation call  *)
(* (base contract and every contract extended from it).                    *)
C1_CreatedAtIsValidationTime ==
    (Succeeded /\ ~Given("createdAt")) =>
        Get(last.result.data, "createdAt") = DateV(last.at)

(* the timestamps the last call filled by default are the clock readings   *)
(* at which the declarations of their defaults were evaluated              *)
FilledAtDeclaration ==
    Succeeded =>
        \A key \in DefaultedTimestamps(Contract) :
            ~Given(key) =>
                Get(last.result.data, key) =
                    DateV(loadedAt[DeclaredIn(last.schema, key)])

(* C2: every timestamp filled by default equals the clock reading at which *)
(* the schema declaring the default was evaluated, and that reading never  *)
(* changes once validations run: all default-filled results of a contract  *)
(* carry the same timestamp, whatever the clock does in between.           *)
C2_DefaultsEvaluatedOnce ==
    [][ /\ FilledAtDeclaration'
        /\ (Ready => loadedAt' = loadedAt) ]_vars

(* a Message validated later than both declarations, which were evaluated  *)
(* at different clock readings, with createdAt and sentAt both defaulted   *)
C2_Witness ==
    /\ Succeeded
    /\ last.schema = "MessageSchema"
    /\ ~Given("createdAt") /\ ~Given("sentAt")
    /\ loadedAt["record"] < loadedAt["messaging"]
    /\ loadedAt["messaging"] < last.at
    /\ Get(last.result.data, "createdAt") = DateV(loadedAt["record"])
    /\ Get(last.result.data, "sentAt") = DateV(loadedAt["messaging"])

(* C3: an input object without an id key, whatever its other keys hold,    *)
(* fails validation against the base contract, and an entry of the error   *)
(* list has the path id.                                                   *)
C3_MissingIdFails ==
    (OnObject /\ last.schema = "RecordSchema" /\ ~Given("id")) =>
        (Failed /\ Names("id"))

C3_Witness ==
    /\ OnObject /\ last.schema = "RecordSchema" /\ ~Given("id")
    /\ Given("createdAt") /\ Given("updatedAt")
    /\ IsTimestamp(last.raw.props["createdAt"])
    /\ IsTimestamp(last.raw.props["updatedAt"])
    /\ Failed /\ Names("id")

(* C4: {id: u, createdAt: t} with u a valid UUID string and t a valid      *)
(* timestamp passes the base contract, and the value returned has id = u.  *)
C4_ValidRecordAccepted ==
    ( /\ OnObject /\ last.schema = "RecordSchema"
      /\ DOMAIN last.raw.props = { "id", "createdAt" }
      /\ IsUuidString(last.raw.props["id"])
      /\ IsTimestamp(last.raw.props["createdAt"]) ) =>
        (Succeeded /\ Get(last.result.data, "id") = last.raw.props["id"])

C4_Witness ==
    /\ Succeeded /\ last.schema = "RecordSchema"
    /\ DOMAIN last.raw.props = { "id", "createdAt" }
    /\ last.raw.props["id"] = Str("123e4567-e89b-12d3-a456-426614174000")
    /\ last.result.data["id"] = Str("123e4567-e89b-12d3-a456-426614174000")

(* the input of the last call has a valid id and a valid createdAt *)
ValidIdAndCreatedAt ==
    /\ OnObject /\ Given("id") /\ Given("createdAt")
    /\ IsUuidString(last.raw.props["id"])
    /\ IsTimestamp(last.raw.props["createdAt"])

(* C5: against the base contract, with a valid id and createdAt, an        *)
(* updatedAt that is present but no valid timestamp fails validation with  *)
(* an entry whose path is updatedAt; an omitted updatedAt succeeds.        *)
C5_UpdatedAtOptionalButChecked ==
    (ValidIdAndCreatedAt /\ last.schema = "RecordSchema") =>
        /\ (Given("updatedAt") /\ ~IsTimestamp(last.raw.props["updatedAt"])) =>
                (Failed /\ Names("updatedAt"))
        /\ ~Given("updatedAt") => Succeeded

C5_Witness ==
    /\ ValidIdAndCreatedAt /\ last.schema = "RecordSchema"
    /\ Given("updatedAt") /\ last.raw.props["updatedAt"] = Str("2024-01-01T00:00:00Z")
    /\ Failed /\ Names("updatedAt") /\ Len(last.result.error) = 1

(* C6: the empty object {} fails the base contract with exactly one        *)
(* violation, whose path is id; the missing createdAt and updatedAt give   *)
(* no violation.                                                           *)
C6_EmptyObjectOneViolation ==
    (OnObject /\ last.schema = "RecordSchema" /\ DOMAIN last.raw.props = {}) =>
        /\ Failed
        /\ Len(last.result.error) = 1
        /\ last.result.error[1].path = << "id" >>

C6_Witness ==
    /\ OnObject /\ last.schema = "RecordSchema" /\ DOMAIN last.raw.props = {}
    /\ Failed /\ ErrorPaths = { << "id" >> }

(* the rule set of a field, as the schema declares it: an absent value     *)
(* needs the field to be optional or defaulted; a present one needs the    *)
(* declared type and every declared check, and so do the elements of an    *)
(* array and the keys of an object                                         *)
RECURSIVE Satisfies(_, _)
Satisfies(def, v) ==
    IF v = Undefined THEN def.optional \/ def.hasDefault \/ def.type = "any"
    ELSE CASE def.type = "date" -> IsTimestamp(v)
           [] def.type = "number" ->
                v.k = "number" /\ (def.check = "min" => v.n >= def.min)
           [] def.type = "boolean" -> v.k = "boolean"
           [] def.type = "enum" -> v.k = "string" /\ v.s \in def.options
           [] def.type = "any" -> TRUE
           [] def.type = "record" -> v.k = "object"
           [] def.type = "literal" -> v = Str(def.value)
           [] def.type = "union" ->
                \E i \in 1..Len(def.variants) : Satisfies(def.variants[i], v)
           [] def.type = "array" ->
                /\ v.k = "array"
                /\ def.check = "min" => Len(v.items) >= def.min
                /\ \A i \in 1..Len(v.items) : Satisfies(def.element, v.items[i])
           [] def.type = "object" ->
                /\ v.k = "object"
                /\ \A i \in 1..Len(def.shape) :
                      Satisfies(def.shape[i].def, Get(v.props, def.shape[i].name))
           [] OTHER ->
                /\ v.k = "string"
                /\ StrLen(v.s) >= def.min
                /\ def.check = "uuid" => v.s \in ValidUUIDs
                /\ def.check = "url" => v.s \in ValidURLs

(* the keys of the last call's contract whose input value breaks its rule *)
Violating ==
    { key \in Keys(Contract) :
        ~Satisfies(DefOf(Contract, key), Get(last.raw.props, key)) }

(* C7: errors are aggregated: for every contract and every input object,   *)
(* the error list has an entry for each field that violates its rule, not  *)
(* only for the first one.                                                 *)
C7_EveryViolationReported ==
    OnObject =>
        /\ \A key \in Violating : NamesWithin(key)
        /\ Violating # {} => Failed

(* a Message with an empty content and a receiverId that is no UUID *)
C7_Witness ==
    /\ OnObject /\ last.schema = "MessageSchema"
    /\ Get(last.raw.props, "content") = Str("")
    /\ Get(last.raw.props, "receiverId") = Str("not-a-uuid")
    /\ Names("content") /\ Names("receiverId")
    /\ Len(last.result.error) = 2

(* C8: validation is atomic: a call gives either a value and no error, in  *)
(* which every required and every defaulted field is present and every     *)
(* field satisfies its rule, or a non-empty error list and no value.       *)
C8_ValueOrErrors ==
    Called =>
        \/ /\ last.result.success
           /\ last.result.error = << >>
           /\ \A key \in Keys(Contract) :
                /\ ~DefOf(Contract, key).optional => key \in DOMAIN last.result.data
                /\ key \in DOMAIN last.result.data =>
                     /\ last.result.data[key] # Undefined
                     /\ Satisfies(DefOf(Contract, key), last.result.data[key])
        \/ /\ ~last.result.success
           /\ Len(last.result.error) >= 1
           /\ DOMAIN last.result.data = {}

(* an input whose strings have the right type but fail a check: the parse  *)
(* keeps a value internally, and the caller gets none                      *)
C8_Witness ==
    /\ OnObject /\ last.schema = "MessageSchema"
    /\ Violating = { "content" }
    /\ Get(last.raw.props, "content") = Str("")
    /\ Failed /\ DOMAIN last.result.data = {}
    /\ Len(last.result.error) = 1

BaseKeys == { "id", "createdAt", "updatedAt" }

(* the required fields each extension adds to the base contract: the keys  *)
(* its declaration gives neither .optional() nor .default(...)             *)
RequiredExtras(schema) ==
    CASE schema = "TopicSchema" -> { "title" }
      [] schema = "TagSchema" -> { "name" }
      [] schema = "MessageSchema" -> { "senderId", "receiverId", "content" }
      [] schema = "FileVersionSchema" -> { "fileId", "version", "fileUrl" }
      [] schema = "QuotaSchema" -> { "totalStorageLimit" }
      [] OTHER -> {}

(* C9: in a contract that extends the base contract with a required field, *)
(* an input with valid id and createdAt passes when the field (like every  *)
(* other one) is valid, and fails with an entry whose path is the field    *)
(* when the field is left out (title on TopicSchema, name on TagSchema).   *)
C9_RequiredExtensionField ==
    (ValidIdAndCreatedAt /\ last.schema \notin BaseContracts) =>
        /\ Violating = {} => Succeeded
        /\ \A key \in RequiredExtras(last.schema) :
                ~Given(key) => (Failed /\ Names(key))

(* {id, createdAt} against TopicSchema: one violation, for title *)
C9_Witness ==
    /\ ValidIdAndCreatedAt /\ last.schema = "TopicSchema"
    /\ DOMAIN last.raw.props = { "id", "createdAt" }
    /\ Failed /\ ErrorPaths = { << "title" >> }

(* the violations an error list reports on the three base fields *)
BaseIssues(error) ==
    { [path |-> error[i].path, code |-> error[i].code] :
        i \in { j \in 1..Len(error) : error[j].path \in { << k >> : k \in BaseKeys } } }

(* C10: an extended contract validates id, createdAt and updatedAt as the  *)
(* base contract does: for the same input at the same clock reading the    *)
(* violations on the three fields are the same and, on success, so are     *)
(* their values.                                                           *)
C10_BaseFieldsAsInRecord ==
    (Called /\ last.schema \notin BaseContracts) =>
        LET rec == SafeParse(schemas["RecordSchema"], last.raw, last.at)
        IN /\ BaseIssues(last.result.error) = BaseIssues(rec.error)
           /\ (last.result.success /\ rec.success) =>
                \A key \in BaseKeys :
                    Get(last.result.data, key) = Get(rec.data, key)

---------------------------------------------------------------------------
(* C11: validation is idempotent: handing a validated value back to the    *)
(* contract that produced it succeeds and returns a value equal to it,     *)
(* field by field, createdAt included, whatever the clock reads at the     *)
(* second call.                                                            *)
C11_RevalidationIsIdentity ==
    (Called /\ last.again) =>
        /\ Succeeded
        /\ last.result.data = last.raw.props

(* a Message whose createdAt was filled by the default of a declaration    *)
(* evaluated at reading 0 (the inputs carry no such date), validated again *)
(* when the clock has advanced                                             *)
C11_Witness ==
    /\ Called /\ last.again /\ last.schema = "MessageSchema"
    /\ loadedAt["record"] = 0
    /\ last.raw.props["createdAt"] = DateV(0)
    /\ last.at > 0
    /\ Succeeded /\ last.result.data["createdAt"] = DateV(0)

---------------------------------------------------------------------------
(* the schemas declared with z.object, not as RecordSchema.extend          *)
(* (productivity.ts:172, forms.ts:7, 156 and 222, part_001:59)                  *)
PlainObjects ==
    { "ReminderSchema", "FormFieldSchema", "FormActionsSchema",
      "FormRestraintsSchema", "CheatsheetSectionSchema" }

(* the domain entities: every schema but the base contract and the parts   *)
(* of a form or of a cheatsheet                                            *)
Entities ==
    DOMAIN schemas \ (BaseContracts \cup { "FormFieldSchema", "FormActionsSchema",
                                         "FormRestraintsSchema",
                                         "CheatsheetSectionSchema" })

(* C12 as stated: every domain entity schema includes id, createdAt and    *)
(* updatedAt with exactly the definition of the base contract, none        *)
(* redefined or missing.                                                   *)
C12_BaseFieldsUnmodified ==
    \A s \in Entities :
        \A key \in BaseKeys :
            /\ key \in Keys(schemas[s])
            /\ DefOf(schemas[s], key) = DefOf(schemas["RecordSchema"], key)

(* C12, amended: every schema declared as an extension of the base         *)
(* contract includes id, createdAt and updatedAt; id and updatedAt have    *)
(* exactly the base definition; createdAt is a date with a default, the    *)
(* base definition unless the extension declares createdAt again, and then *)
(* the default is the clock reading at which the extension's module was    *)
(* evaluated.  A schema declared with z.object (ReminderSchema) has none   *)
(* of the three fields.                                                    *)
C12_BaseFieldsOfExtensions ==
    \A s \in DOMAIN schemas \ BaseContracts :
        IF s \in PlainObjects
        THEN Keys(schemas[s]) \cap BaseKeys = {}
        ELSE /\ BaseKeys \subseteq Keys(schemas[s])
             /\ \A key \in { "id", "updatedAt" } :
                    DefOf(schemas[s], key) = DefOf(schemas["RecordSchema"], key)
             /\ DefOf(schemas[s], "createdAt") =
                    Default(ZDate, DateV(loadedAt[DeclaredIn(s, "createdAt")]))

(* the messaging module evaluated later than record.ts: the Reaction       *)
(* contract has the three fields, its createdAt with a default other than  *)
(* that of the base contract, next to the Message contract, which has the  *)
(* base definition                                                         *)
C12_Witness ==
    /\ "ReactionSchema" \in DOMAIN schemas
    /\ loadedAt["record"] < loadedAt["messaging"]
    /\ BaseKeys \subseteq Keys(schemas["ReactionSchema"])
    /\ DefOf(schemas["ReactionSchema"], "createdAt").dflt
            = DateV(loadedAt["messaging"])
    /\ DefOf(schemas["ReactionSchema"], "createdAt")
            # DefOf(schemas["RecordSchema"], "createdAt")
    /\ DefOf(schemas["MessageSchema"], "createdAt")
            = DefOf(schemas["RecordSchema"], "createdAt")

---------------------------------------------------------------------------
(* the keys each extension passes to RecordSchema.extend({...}) *)
Additional(schema) ==
    CASE schema = "MessageSchema" ->
            { "senderId", "receiverId", "content", "sentAt", "readAt",
              "conversationId" }
      [] schema = "ConversationSchema" ->
            { "participants", "lastMessageAt", "messages" }
      [] schema = "NotificationSchema" ->
            { "userId", "title", "content", "type", "sentAt", "readAt",
              "actionUrl" }
      [] schema = "ReactionSchema" ->
            { "messageId", "userId", "reactionType", "createdAt" }
      [] schema = "TopicSchema" -> { "title", "description" }
      [] schema = "CheatsheetSchema" -> { "topicId", "title", "sections", "tags" }
      [] schema = "TaskListSchema" ->
            { "title", "description", "tasks", "projectId" }
      [] schema = "TagSchema" -> { "name", "description" }
      [] schema = "TimeLogSchema" ->
            { "taskId", "projectId", "duration", "description", "logDate" }
      [] schema = "StudySessionSchema" ->
            { "studyPlanId", "topicId", "duration", "date", "notes" }
      [] schema = "SubtaskSchema" ->
            { "title", "description", "status", "dueDate", "taskId", "priority" }
      [] schema = "TaskSchema" ->
            { "title", "description", "status", "dueDate", "priority", "tags",
              "projectId", "reminders", "dependencies" }
      [] schema = "FileSchema" ->
            { "fileName", "fileType", "fileSize", "fileUrl", "description",
              "tags", "version", "isPublic", "accessManagement" }
      [] schema = "FolderSchema" ->
            { "name", "parentFolderId", "description", "accessManagement" }
      [] schema = "FileVersionSchema" ->
            { "fileId", "version", "changeLog", "fileUrl", "createdAt" }
      [] schema = "FileCommentSchema" ->
            { "fileId", "authorId", "comment", "createdAt" }
      [] schema = "FileMetadataSchema" -> { "fileId", "metadata", "createdAt" }
      [] schema = "EventNotificationSchema" ->
            { "fileId", "eventType", "recipientId", "message", "createdAt" }
      [] schema = "CommentSchema" ->
            { "contentEntryId", "author", "text", "createdAt" }
      [] schema = "QuotaSchema" ->
            { "userId", "groupId", "totalStorageLimit", "usedStorage",
              "lastUpdated" }
      [] schema = "ContentEntrySchema" ->
            { "contentTypeId", "fields", "status", "publishedAt" }
      [] schema = "FormSchema" ->
            { "formName", "description", "fields", "layout", "actions",
              "dependencies", "repeatingGroups", "restraints" }

(* the schemas built by RecordSchema.extend *)
Extensions == DOMAIN schemas \ (BaseContracts \cup PlainObjects)

(* C13: the field set of an extended contract is exactly the union of the  *)
(* base field names and the additional field names; a name in both         *)
(* (createdAt) has the extension's definition, the date default of the     *)
(* extending module, and a call that omits it gets that default, not the   *)
(* one of the base contract; the other base names keep the base            *)
(* definition.                                                             *)
C13_ExtendIsUnionExtensionWins ==
    /\ \A s \in Extensions :
          LET base == schemas["RecordSchema"]
          IN /\ Keys(schemas[s]) = Keys(base) \cup Additional(s)
             /\ \A key \in Keys(base) \ Additional(s) :
                    DefOf(schemas[s], key) = DefOf(base, key)
             /\ \A key \in Keys(base) \cap Additional(s) :
                    DefOf(schemas[s], key) =
                        Default(ZDate, NewDate(loadedAt[DeclaredIn(s, key)]))
    /\ (Succeeded /\ last.schema \in Redeclaring /\ ~Given("createdAt")) =>
            Get(last.result.data, "createdAt") =
                DateV(loadedAt[DeclaredIn(last.schema, "createdAt")])

(* a Reaction without createdAt, validated by a contract whose module was  *)
(* evaluated later than record.ts: createdAt is the default of the         *)
(* extension, not that of the base contract                                *)
C13_Witness ==
    /\ Succeeded /\ last.schema = "ReactionSchema" /\ ~Given("createdAt")
    /\ loadedAt["record"] < loadedAt["messaging"]
    /\ Keys(Contract) =
            BaseKeys \cup { "messageId", "userId", "reactionType" }
    /\ Get(last.result.data, "createdAt") = DateV(loadedAt["messaging"])
    /\ DefOf(schemas["RecordSchema"], "createdAt").dflt = DateV(loadedAt["record"])

---------------------------------------------------------------------------
(* no extension among the schemas sch has a key that only another          *)
(* extension declares, and an extension that does not declare createdAt    *)
(* has the definition of the base contract for it                          *)
NoLeak(sch) ==
    LET ext == DOMAIN sch \ (BaseContracts \cup PlainObjects)
    IN \A t \in ext :
          /\ \A s \in ext \ { t } :
                (Keys(sch[t]) \cap Additional(s)) \subseteq
                    (Additional(t) \cup BaseKeys)
          /\ t \notin Redeclaring =>
                DefOf(sch[t], "createdAt") = DefOf(sch["RecordSchema"], "createdAt")

(* C14: extending leaves the base contract unchanged: once declared, the   *)
(* Record contract is the same object after every step; after a module of  *)
(* extensions has been evaluated (extensions that declare createdAt again  *)
(* included) it has the same three fields, gives every input the outcome   *)
(* it gave before, and no extension has the fields of another.             *)
C14_ExtendLeavesBaseUnchanged ==
    [][ "RecordSchema" \in DOMAIN schemas =>
          /\ schemas'["RecordSchema"] = schemas["RecordSchema"]
          /\ loaded' # loaded =>
                /\ Keys(schemas'["RecordSchema"]) = BaseKeys
                /\ \A raw \in RecordInputs :
                      SafeParse(schemas'["RecordSchema"], raw, clock') =
                          SafeParse(schemas["RecordSchema"], raw, clock)
                /\ NoLeak(schemas') ]_vars

(* the base contract validating after the files module, whose extensions   *)
(* declare createdAt again, was evaluated at a later clock reading: the    *)
(* default it fills is still its own                                       *)
C14_Witness ==
    /\ Succeeded /\ last.schema = "RecordSchema" /\ ~Given("createdAt")
    /\ "FileMetadataSchema" \in DOMAIN schemas
    /\ loadedAt["record"] < loadedAt["files"]
    /\ Keys(schemas["RecordSchema"]) = BaseKeys
    /\ Get(last.result.data, "createdAt") = DateV(loadedAt["record"])
    /\ DefOf(schemas["FileMetadataSchema"], "createdAt").dflt
            = DateV(loadedAt["files"])

---------------------------------------------------------------------------
---------------------------------------------------------------------------
---------------------------------------------------------------------------
(* C17: validated values share no object: when the caller holds the values *)
(* of two calls and writes to an object of the first, that object is not   *)
(* part of the second value and is not a default held by the contract.     *)
C17_ValuesShareNothing ==
    Called =>
        \A o \in last.touched :
            /\ o \notin ObjectsOf(schemas[last.schema], last.raw, "input", "second")
            /\ o[1] # "contract"

---------------------------------------------------------------------------
(* the value breaks a rule the field itself declares: it is absent from a  *)
(* required field, has another type than the declared one, or fails a      *)
(* declared check; what an array or an object holds is not looked at       *)
BreaksOwnRule(def, v) ==
    IF v = Undefined THEN ~(def.optional \/ def.hasDefault \/ def.type = "any")
    ELSE CASE def.type = "date" -> ~IsTimestamp(v)
           [] def.type = "number" ->
                ~(v.k = "number" /\ (def.check = "min" => v.n >= def.min))
           [] def.type = "boolean" -> v.k # "boolean"
           [] def.type = "enum" -> ~(v.k = "string" /\ v.s \in def.options)
           [] def.type = "any" -> FALSE
           [] def.type = "record" -> v.k # "object"
           [] def.type = "literal" -> v # Str(def.value)
           [] def.type = "union" ->
                ~ \E i \in 1..Len(def.variants) : Satisfies(def.variants[i], v)
           [] def.type = "array" ->
                ~(v.k = "array" /\ (def.check = "min" => Len(v.items) >= def.min))
           [] def.type = "object" -> v.k # "object"
           [] OTHER ->
                ~(/\ v.k = "string"
                  /\ StrLen(v.s) >= def.min
                  /\ def.check = "uuid" => v.s \in ValidUUIDs
                  /\ def.check = "url" => v.s \in ValidURLs)

(* the value has the declared type all through, whatever the checks on     *)
(* lengths, bounds and formats say                                         *)
RECURSIVE RightType(_, _)
RightType(def, v) ==
    IF v = Undefined THEN def.optional \/ def.hasDefault \/ def.type = "any"
    ELSE CASE def.type = "date" -> IsTimestamp(v)
           [] def.type = "number" -> v.k = "number"
           [] def.type = "boolean" -> v.k = "boolean"
           [] def.type = "enum" -> v.k = "string" /\ v.s \in def.options
           [] def.type = "any" -> TRUE
           [] def.type = "record" -> v.k = "object"
           [] def.type = "literal" -> v = Str(def.value)
           [] def.type = "union" ->
                \E i \in 1..Len(def.variants) : RightType(def.variants[i], v)
           [] def.type = "array" ->
                /\ v.k = "array"
                /\ \A i \in 1..Len(v.items) : RightType(def.element, v.items[i])
           [] def.type = "object" ->
                /\ v.k = "object"
                /\ \A i \in 1..Len(def.shape) :
                      RightType(def.shape[i].def, Get(v.props, def.shape[i].name))
           [] OTHER -> v.k = "string"

(* the paths, from path on, of the fields of value v whose value breaks a  *)
(* rule of their own: the field itself, the elements of an array by their  *)
(* index, the keys of an object by their name; for a union that no variant *)
(* accepts, the fields of the first variant whose types the value has, or  *)
(* the union itself when it has the types of none                          *)
RECURSIVE BrokenAt(_, _, _)
BrokenAt(def, v, path) ==
    LET d == IF def.hasDefault /\ v = Undefined THEN def.dflt ELSE v
        own == IF BreaksOwnRule(def, d) THEN { path } ELSE {}
    IN IF d = Undefined THEN own
       ELSE IF def.type = "union"
       THEN LET typed == { i \in 1..Len(def.variants) : RightType(def.variants[i], d) }
            IN IF own = {} \/ typed = {} THEN own
               ELSE BrokenAt(def.variants[CHOOSE i \in typed : \A j \in typed : i <= j],
                             d, path)
       ELSE IF def.type = "array" /\ d.k = "array"
       THEN own \cup UNION { BrokenAt(def.element, d.items[i],
                                      Append(path, ToString(i - 1))) :
                               i \in 1..Len(d.items) }
       ELSE IF def.type = "object" /\ d.k = "object"
       THEN own \cup UNION { BrokenAt(def.shape[i].def,
                                      Get(d.props, def.shape[i].name),
                                      Append(path, def.shape[i].name)) :
                               i \in 1..Len(def.shape) }
       ELSE own

(* the paths of the rule violations in the input of the last call *)
BrokenPaths ==
    BrokenAt(ZObject(Contract),
             IF last.raw.isObject THEN Obj(last.raw.props) ELSE Null, << >>)

(* C18: a failed validation reports one list of entries, each a path, the  *)
(* rule violated and a message; the paths reported are those of the fields *)
(* whose input value breaks a rule of the field, no other: a violation in  *)
(* an element of an array or in a key of a nested object is reported under *)
(* the path of the array, the index of the element and the key, and a      *)
(* field that satisfies its rules has no entry.                            *)
C18_EntriesDesignateViolations ==
    Failed =>
        /\ last.result.error # << >>
        /\ \A i \in 1..Len(last.result.error) :
              DOMAIN last.result.error[i] = { "path", "code", "message" }
        /\ ErrorPaths = BrokenPaths

(* a Form whose second field has an empty fieldName and whose first field  *)
(* is valid: the entry is at fields, 1, fieldName, and nothing is reported *)
(* for the first field                                                     *)
C18_Witness ==
    /\ Failed /\ last.schema = "FormSchema" /\ OnObject
    /\ Given("fields")
    /\ last.raw.props["fields"].k = "array"
    /\ Len(last.raw.props["fields"].items) = 2
    /\ last.raw.props["fields"].items[2].k = "object"
    /\ last.raw.props["fields"].items[2].props["fieldName"] = Str("")
    /\ << "fields", "1", "fieldName" >> \in ErrorPaths
    /\ \A p \in ErrorPaths : Len(p) >= 2 => p[2] # "0"

---------------------------------------------------------------------------
(* the enum fields declared with a default: field, options, default *)
EnumDefaults ==
    [ TaskSchema |->
        [key |-> "priority", options |-> { "low", "medium", "high" },
         dflt |-> "medium"],
      SubtaskSchema |->
        [key |-> "priority", options |-> { "low", "medium", "high" },
         dflt |-> "medium"],
      NotificationSchema |->
        [key |-> "type", options |-> { "info", "warning", "error" },
         dflt |-> "info"],
      ContentEntrySchema |->
        [key |-> "status", options |-> { "draft", "published", "archived" },
         dflt |-> "draft"] ]

(* C19: an enum field with a default takes the default only when the input *)
(* leaves it out: priority of a Task or Subtask becomes "medium", type of a *)
(* Notification "info", status of a ContentEntry "draft"; a supplied       *)
(* option is returned as supplied; any other supplied value makes the      *)
(* validation fail with an entry at the field, the default not standing in *)
(* for it.                                                                 *)
C19_EnumDefaultOnlyWhenOmitted ==
    (OnObject /\ last.schema \in DOMAIN EnumDefaults) =>
        LET e == EnumDefaults[last.schema]
            supplied == last.raw.props[e.key]
        IN IF ~Given(e.key)
           THEN /\ ~NamesWithin(e.key)
                /\ Succeeded => last.result.data[e.key] = Str(e.dflt)
           ELSE IF supplied \in { Str(o) : o \in e.options }
           THEN /\ ~NamesWithin(e.key)
                /\ Succeeded => last.result.data[e.key] = supplied
           ELSE Failed /\ Names(e.key)

(* a Subtask without priority, accepted with priority "medium" *)
C19_Witness ==
    /\ Succeeded /\ last.schema = "SubtaskSchema"
    /\ ~Given("priority")
    /\ last.result.data["priority"] = Str("medium")

---------------------------------------------------------------------------
(* the participants of the input are an array of two or more strings, each *)
(* a UUID                                                                  *)
TwoOrMoreUuids(v) ==
    /\ v.k = "array"
    /\ Len(v.items) >= 2
    /\ \A i \in 1..Len(v.items) : IsUuidString(v.items[i])

(* C20: a Conversation needs at least two participants, each a UUID: the   *)
(* validation fails with an entry at participants when the array is left   *)
(* out, is no array, has no or one element, or holds a string that is no   *)
(* UUID; with two or more UUIDs, the same one twice included, nothing is   *)
(* reported at participants and the validation succeeds when the other     *)
(* fields are valid.                                                       *)
C20_AtLeastTwoParticipants ==
    (OnObject /\ last.schema = "ConversationSchema") =>
        IF TwoOrMoreUuids(Get(last.raw.props, "participants"))
        THEN /\ ~NamesWithin("participants")
             /\ Violating = {} => Succeeded
        ELSE Failed /\ NamesWithin("participants")

(* a Conversation of one user with themself is accepted *)
C20_Witness ==
    /\ Succeeded /\ last.schema = "ConversationSchema"
    /\ Len(last.raw.props["participants"].items) = 2
    /\ last.raw.props["participants"].items[1]
         = last.raw.props["participants"].items[2]
    /\ last.result.data["participants"] = last.raw.props["participants"]

---------------------------------------------------------------------------
NonEmptyString(v) == v.k = "string" /\ v.s # ""
NonEmptyStrings(v) ==
    v.k = "array" /\ \A i \in 1..Len(v.items) : NonEmptyString(v.items[i])

(* the content is one of the four variants, as its type says *)
IsVariant(c) ==
    /\ c.k = "object"
    /\ LET type == Get(c.props, "type")
           at(key) == Get(c.props, key)
       IN \/ type = Str("text") /\ NonEmptyString(at("value"))
          \/ type = Str("list") /\ NonEmptyStrings(at("items"))
          \/ type = Str("formula") /\ NonEmptyString(at("expression"))
          \/ /\ type = Str("table")
             /\ NonEmptyStrings(at("headers"))
             /\ at("rows").k = "array"
             /\ \A i \in 1..Len(at("rows").items) :
                   /\ NonEmptyStrings(at("rows").items[i])
                   /\ Len(at("rows").items[i].items) >= 1

(* C21: the content of a cheatsheet section is accepted exactly when it is *)
(* one of the four variants its type selects (text with a value, list with *)
(* items, formula with an expression, table with headers and rows of at    *)
(* least one cell, every string non-empty); a type with the payload of     *)
(* another variant, or a type that is none of the four, is rejected with   *)
(* an entry at content or inside it, in a section validated alone or as a  *)
(* section of a cheatsheet.                                                *)
C21_ContentIsOneVariant ==
    /\ (OnObject /\ last.schema = "CheatsheetSectionSchema"
          /\ NonEmptyString(Get(last.raw.props, "title"))) =>
            IF IsVariant(Get(last.raw.props, "content"))
            THEN Succeeded
            ELSE Failed /\ NamesWithin("content")
    /\ (OnObject /\ last.schema = "CheatsheetSchema"
          /\ Violating \subseteq { "sections" }
          /\ Get(last.raw.props, "sections").k = "array"
          /\ Len(Get(last.raw.props, "sections").items) = 1
          /\ Get(last.raw.props, "sections").items[1].k = "object"
          /\ NonEmptyString(Get(last.raw.props["sections"].items[1].props, "title"))) =>
            IF IsVariant(Get(last.raw.props["sections"].items[1].props, "content"))
            THEN Succeeded
            ELSE /\ Failed
                 /\ \A p \in ErrorPaths :
                       Len(p) >= 3 /\ SubSeq(p, 1, 3) = << "sections", "0", "content" >>

(* a section whose content has type text, items and no value: refused with *)
(* one entry, at content                                                   *)
C21_Witness ==
    /\ Failed /\ last.schema = "CheatsheetSectionSchema"
    /\ Given("content")
    /\ last.raw.props["content"].k = "object"
    /\ Get(last.raw.props["content"].props, "type") = Str("text")
    /\ "items" \in DOMAIN last.raw.props["content"].props
    /\ "value" \notin DOMAIN last.raw.props["content"].props
    /\ ErrorPaths = { << "content" >> }

---------------------------------------------------------------------------
EmptyObject == Obj([none \in {} |-> Undefined])

(* C22: the default inside accessManagement does not make accessManagement *)
(* optional: a File or a Folder without it is refused with an entry at     *)
(* accessManagement; with accessManagement an object without any key,      *)
(* nothing is reported there and the value has accessType "private" in it; *)
(* a File without version or isPublic gets "v1.0" and false.               *)
C22_NestedDefaultsNeedTheObject ==
    (OnObject /\ last.schema \in { "FileSchema", "FolderSchema" }) =>
        /\ ~Given("accessManagement") => Failed /\ Names("accessManagement")
        /\ Get(last.raw.props, "accessManagement") = EmptyObject =>
              /\ ~NamesWithin("accessManagement")
              /\ Violating = {} => Succeeded
              /\ Succeeded => last.result.data["accessManagement"]
                                = Obj([accessType |-> Str("private")])
        /\ (last.schema = "FileSchema" /\ ~Given("version")) =>
              /\ ~NamesWithin("version")
              /\ Succeeded => last.result.data["version"] = Str("v1.0")
        /\ (last.schema = "FileSchema" /\ ~Given("isPublic")) =>
              /\ ~NamesWithin("isPublic")
              /\ Succeeded => last.result.data["isPublic"] = Bool(FALSE)

(* a File with accessManagement {} and neither version nor isPublic is     *)
(* accepted with the three defaults                                        *)
C22_Witness ==
    /\ Succeeded /\ last.schema = "FileSchema"
    /\ Get(last.raw.props, "accessManagement") = EmptyObject
    /\ ~Given("version") /\ ~Given("isPublic")
    /\ last.result.data["version"] = Str("v1.0")
    /\ last.result.data["isPublic"] = Bool(FALSE)
    /\ last.result.data["accessManagement"].props["accessType"] = Str("private")

---------------------------------------------------------------------------
(* C23: the duration of a TimeLog and of a StudySession is at least 1: a   *)
(* duration of 1 or of any larger integer has no entry and the call        *)
(* succeeds when the other fields are valid; 0 and every negative integer  *)
(* make it fail with an entry at duration that carries the message         *)
(* "Duration must be at least 1 minute."; so does a duration left out,     *)
(* with an entry at duration.                                              *)
C23_DurationAtLeastOne ==
    (OnObject /\ last.schema \in { "TimeLogSchema", "StudySessionSchema" }) =>
        LET d == Get(last.raw.props, "duration")
        IN /\ (d.k = "number" /\ d.n >= 1) =>
                /\ ~NamesWithin("duration")
                /\ Violating = {} => Succeeded
                /\ Succeeded => last.result.data["duration"] = d
           /\ (d.k = "number" /\ d.n <= 0) =>
                /\ Failed
                /\ \E i \in 1..Len(last.result.error) :
                      /\ last.result.error[i].path = << "duration" >>
                      /\ last.result.error[i].message
                           = "Duration must be at least 1 minute."
           /\ d = Undefined => Failed /\ Names("duration")

(* a TimeLog of no minutes is refused with the message of the declaration  *)
C23_Witness ==
    /\ Failed /\ last.schema = "TimeLogSchema"
    /\ Get(last.raw.props, "duration") = Num(0)
    /\ \E i \in 1..Len(last.result.error) :
          /\ last.result.error[i].path = << "duration" >>
          /\ last.result.error[i].message = "Duration must be at least 1 minute."

---------------------------------------------------------------------------
(* C24: a createdAt the input supplies is never replaced by the default:   *)
(* with a valid timestamp t as createdAt nothing is reported at createdAt  *)
(* and the value returned has createdAt = t, whenever the contract was     *)
(* declared and whenever the call is made, in the base contract, in the    *)
(* extensions that inherit createdAt and in those that declare it again.   *)
C24_SuppliedCreatedAtKept ==
    (OnObject /\ "createdAt" \in Keys(Contract)
        /\ IsTimestamp(Get(last.raw.props, "createdAt"))) =>
        /\ ~NamesWithin("createdAt")
        /\ Succeeded => last.result.data["createdAt"] = last.raw.props["createdAt"]

(* an EventNotification or a Comment with createdAt supplied, validated    *)
(* after its module and record.ts were evaluated at two other readings of  *)
(* the clock, none of them the supplied time                               *)
C24_Witness ==
    /\ Succeeded /\ last.schema \in { "EventNotificationSchema", "CommentSchema" }
    /\ Given("createdAt")
    /\ last.result.data["createdAt"] = last.raw.props["createdAt"]
    /\ \E m \in loaded \ { "record" } :
          /\ loadedAt["record"] < loadedAt[m] /\ loadedAt[m] < last.at
          /\ last.raw.props["createdAt"]
                \notin { DateV(loadedAt["record"]), DateV(loadedAt[m]), DateV(last.at) }

---------------------------------------------------------------------------
(* the input of the call without the keys its contract does not declare *)
Declared(raw, shape) ==
    RawObject([key \in DOMAIN raw.props \cap Keys(shape) |-> raw.props[key]])

(* C25: a validated value has only keys its contract declares: a key of    *)
(* the input that the contract does not declare is not in the value and    *)
(* is not reported, the outcome being that of the input without it; a      *)
(* value of the base contract has id and createdAt, and nothing else but   *)
(* updatedAt.                                                              *)
C25_OnlyDeclaredKeys ==
    /\ Succeeded => DOMAIN last.result.data \subseteq Keys(Contract)
    /\ \A p \in ErrorPaths : p # << >> => p[1] \in Keys(Contract)
    /\ (OnObject /\ ~(DOMAIN last.raw.props \subseteq Keys(Contract))) =>
            last.result = SafeParse(Contract, Declared(last.raw, Contract), last.at)
    /\ (Succeeded /\ last.schema = "RecordSchema") =>
            /\ { "id", "createdAt" } \subseteq DOMAIN last.result.data
            /\ DOMAIN last.result.data \subseteq { "id", "createdAt", "updatedAt" }

(* a Record given id and a key that is not declared, and nothing else: the *)
(* value has id and createdAt only                                         *)
C25_Witness ==
    /\ Succeeded /\ last.schema = "RecordSchema"
    /\ DOMAIN last.raw.props = { "id", "extra" }
    /\ DOMAIN last.result.data = { "id", "createdAt" }

---------------------------------------------------------------------------
(* the paths an error list reports *)
PathsOf(error) == { error[i].path : i \in 1..Len(error) }

(* C26: the RecordSchema of record.ts and that of part_004 are equivalent: *)
(* for every input and clock reading, both succeed or both fail, with the  *)
(* same paths reported and, on success, the same id and updatedAt.         *)
C26_RecordSchemasEquivalent ==
    (Called /\ last.schema \in BaseContracts /\ BaseContracts \subseteq DOMAIN schemas) =>
        LET other == CHOOSE s \in BaseContracts : s # last.schema
            twin == SafeParse(schemas[other], last.raw, last.at)
        IN /\ twin.success = last.result.success
           /\ PathsOf(twin.error) = ErrorPaths
           /\ last.result.success =>
                \A key \in { "id", "updatedAt" } :
                    /\ (key \in DOMAIN twin.data) = (key \in DOMAIN last.result.data)
                    /\ Get(twin.data, key) = Get(last.result.data, key)

(* the two contracts declared at different clock readings, an input with   *)
(* id and updatedAt validated by that of part_004: the other one gives the *)
(* same id and updatedAt, and another createdAt                            *)
C26_Witness ==
    /\ Succeeded /\ last.schema = "part_004.RecordSchema"
    /\ DOMAIN last.raw.props = { "id", "updatedAt" }
    /\ loadedAt["record"] < loadedAt["part_004"]
    /\ schemas["RecordSchema"] # schemas["part_004.RecordSchema"]
    /\ LET twin == SafeParse(schemas["RecordSchema"], last.raw, last.at)
       IN /\ twin.success
          /\ twin.data["id"] = last.result.data["id"]
          /\ twin.data["updatedAt"] = last.result.data["updatedAt"]
          /\ twin.data["createdAt"] # last.result.data["createdAt"]

---------------------------------------------------------------------------
(* the types a form field can have, and those restraints can list *)
FieldTypes == DefOf(schemas["FormFieldSchema"], "type").options
AllowedTypes ==
    DefOf(schemas["FormRestraintsSchema"], "allowedFieldTypes").element.options

(* the strings an array holds *)
Listed(v) == { v.items[i].s : i \in 1..Len(v.items) }

(* C27: the types allowedFieldTypes accepts are the types of a form field  *)
(* but "relationship": a field of type "relationship" is valid, restraints *)
(* that list "relationship" are rejected at allowedFieldTypes, and a Form  *)
(* is valid whenever each of its keys is, whatever its restraints say      *)
(* about the fields it has.                                                *)
C27_RelationshipNeverAllowed ==
    /\ "FormRestraintsSchema" \in DOMAIN schemas =>
            /\ "relationship" \in FieldTypes
            /\ AllowedTypes = FieldTypes \ { "relationship" }
    /\ (OnObject /\ last.schema = "FormFieldSchema"
            /\ Get(last.raw.props, "type") = Str("relationship")) =>
            /\ ~NamesWithin("type")
            /\ Violating = {} => Succeeded
    /\ (OnObject /\ last.schema = "FormRestraintsSchema"
            /\ Get(last.raw.props, "allowedFieldTypes").k = "array") =>
            LET listed == Listed(last.raw.props["allowedFieldTypes"])
            IN /\ "relationship" \in listed =>
                    (Failed /\ NamesWithin("allowedFieldTypes"))
               /\ listed \subseteq FieldTypes \ { "relationship" } =>
                    ~NamesWithin("allowedFieldTypes")
    /\ (OnObject /\ last.schema = "FormSchema") =>
            /\ Succeeded <=> Violating = {}
            /\ (Given("restraints") /\ last.raw.props["restraints"].k = "object"
                    /\ Get(last.raw.props["restraints"].props, "allowedFieldTypes").k
                            = "array"
                    /\ "relationship" \in
                            Listed(last.raw.props["restraints"].props["allowedFieldTypes"]))
                 => (Failed /\ NamesWithin("restraints"))

(* a Form of one field of type "relationship" whose restraints allow no    *)
(* field at all and list "number" as the only type: it is valid            *)
C27_Witness ==
    /\ Succeeded /\ last.schema = "FormSchema"
    /\ Len(last.raw.props["fields"].items) = 1
    /\ last.raw.props["fields"].items[1].props["type"] = Str("relationship")
    /\ Given("restraints")
    /\ last.raw.props["restraints"].props["maxFields"] = Num(0)
    /\ last.raw.props["restraints"].props["allowedFieldTypes"] = Arr(<< Str("number") >>)
    /\ last.result.data["fields"].items[1].props["type"] = Str("relationship")

=============================================================================
